---------------------------- MODULE Spec2Model ----------------------------
(***************************************************************************)
(* A model of saleae_parser.py: the SPI flash-read reconstructor           *)
(* (SPI.read_file in S-record/binary mode) and its two encoders            *)
(* (SPI.print_results).                                                    *)
(*                                                                         *)
(* Strings.  A Python str is modelled as a sequence of symbols.  Hex       *)
(* digits, the letter x of a 0x prefix and the double quote are single     *)
(* characters, because the code cuts strings there (replace, slicing,      *)
(* int(.,16), format).  A word the code only ever compares as a whole      *)
(* (a column name, a type value) is one symbol.  The empty sequence is     *)
(* the empty string.  A line already split on ',' is a sequence of fields. *)
(***************************************************************************)
EXTENDS Integers, Sequences, FiniteSets, TLC

VARIABLES
    pc,             \* position of the run: reading the file, returned, done, error
    first_line,     \* read_file: header line already consumed
    headers,        \* self.headers
    header_pos,     \* self.header_pos: column name -> 0-based position
    i,              \* read_file: number of data lines consumed so far
    mosi_val,       \* read_file locals
    miso_val,
    data_buf,
    command_found,
    count,
    address,
    res_count,
    results,        \* self.results
    trace,          \* history: kind, command-line and data-line byte of every line consumed
    prev_results,   \* history: self.results before the last consumed line
    e_idx,          \* print_results: index of the entry of self.results being encoded
    c_idx,          \* print_results: index of the chunk (S-record) or data byte (binary) in it
    printed,        \* the S2 lines printed so far
    seq_read,       \* the bytes written to seq_read.bin
    mem_map,        \* print_results: the memory image being filled
    image,          \* the content of mem_map.bin, empty until it is written
    results_in,     \* history: self.results when print_results was called
    first_run,      \* history: the files of an earlier binary encoding of self.results
    data_filter,    \* self.data_filter, empty when no -d was given
    before,         \* self.before, 0 when the attribute is not set
    after,          \* self.after, 0 when the attribute is not set
    before_buffer,  \* Analyzer.read_file locals
    after_buffer,
    identifier,     \* CAN.read_file locals
    temp_entry,
    id_counter      \* self.id_counter

readerVars == <<first_line, headers, header_pos, i, mosi_val, miso_val, data_buf,
                command_found, count, address, res_count, trace, prev_results>>

encoderVars == <<e_idx, c_idx, printed, seq_read, mem_map, image, results_in, first_run>>

baseVars == <<data_filter, before, after, before_buffer, after_buffer>>

canVars == <<identifier, temp_entry, id_counter>>

vars == <<pc, results, readerVars, encoderVars, baseVars, canVars>>

-----------------------------------------------------------------------------
(* Bounds of the model *)

\* number of data lines of an export the reader model consumes
MaxRows == 7

\* number of data bytes of a transaction handed to the S-record encoder
MaxData == 65

\* number of data bytes of a transaction handed to the binary encoder
MaxBinData == 3

-----------------------------------------------------------------------------
(* String helpers: Python str operations used by the code *)

Q == "\""

\* s.replace(pat, '') : every non-overlapping occurrence of pat, left to right
RECURSIVE Remove(_, _)
Remove(s, pat) ==
    IF Len(s) < Len(pat) THEN s
    ELSE IF SubSeq(s, 1, Len(pat)) = pat
         THEN Remove(SubSeq(s, Len(pat) + 1, Len(s)), pat)
         ELSE <<s[1]>> \o Remove(Tail(s), pat)

\* value.replace('0x','')
Strip0x(s) == Remove(s, <<"0", "x">>)

\* h in self.headers
InHeaders(name) == \E k \in 1..Len(headers) : headers[k] = name

\* the characters int(c, 16) accepts, by value
LowerDigits == <<"0","1","2","3","4","5","6","7","8","9","a","b","c","d","e","f">>
UpperDigits == <<"0","1","2","3","4","5","6","7","8","9","A","B","C","D","E","F">>

\* int(c, 16) of one character
DigitVal(c) ==
    CHOOSE v \in 0..15 : LowerDigits[v + 1] = c \/ UpperDigits[v + 1] = c

\* int(s, 16) of a non-empty string of hex digits
RECURSIVE ParseHex(_)
ParseHex(s) ==
    IF Len(s) = 0 THEN 0
    ELSE 16 * ParseHex(SubSeq(s, 1, Len(s) - 1)) + DigitVal(s[Len(s)])

\* hex(n).split('0x')[1] : lowercase digits, no padding
RECURSIVE HexLower(_)
HexLower(n) ==
    IF n < 16 THEN <<LowerDigits[n + 1]>>
    ELSE HexLower(n \div 16) \o <<LowerDigits[(n % 16) + 1]>>

\* str.upper() on one character and on a string
UpperChar(c) ==
    IF \E v \in 10..15 : LowerDigits[v + 1] = c
    THEN UpperDigits[(CHOOSE v \in 10..15 : LowerDigits[v + 1] = c) + 1]
    ELSE c

Upper(s) == [k \in 1..Len(s) |-> UpperChar(s[k])]

\* left padding with '0' to a minimum width, as the format specs 0>6 and 02 do
RECURSIVE PadLeft(_, _)
PadLeft(s, width) ==
    IF Len(s) >= width THEN s ELSE PadLeft(<<"0">> \o s, width)

\* '0x{0:0{1}X}'.format(v, 2).replace('0x','').upper()
FormatByte(v) == Upper(Strip0x(<<"0", "x">> \o PadLeft(Upper(HexLower(v)), 2)))

-----------------------------------------------------------------------------
(* Integer bit operations *)

RECURSIVE BitAnd(_, _)
BitAnd(x, y) ==
    IF x = 0 \/ y = 0 THEN 0
    ELSE (x % 2) * (y % 2) + 2 * BitAnd(x \div 2, y \div 2)

RECURSIVE BitOr(_, _)
BitOr(x, y) ==
    IF x = 0 THEN y
    ELSE IF y = 0 THEN x
    ELSE (IF x % 2 = 1 \/ y % 2 = 1 THEN 1 ELSE 0) + 2 * BitOr(x \div 2, y \div 2)

RECURSIVE BitXor(_, _)
BitXor(x, y) ==
    IF x = 0 THEN y
    ELSE IF y = 0 THEN x
    ELSE (IF x % 2 = y % 2 THEN 0 ELSE 1) + 2 * BitXor(x \div 2, y \div 2)

Shl(x, n) == x * 2^n
Shr(x, n) == x \div 2^n

-----------------------------------------------------------------------------
(* SPI.__init__ : the device profile *)

\* size of the memory image; the DEFAULT profile's 0x3FFFFFF+256 scaled down
MemSize == 6

device ==
    [READ |-> <<"0", "3">>, FAST_READ |-> <<"0", "B">>,
     FAST_DUAL_READ |-> <<"3", "B">>, FAST_QUAD_READ |-> <<"E", "B">>,
     SIZE |-> MemSize]

\* command_found = False ; the opcodes it is otherwise set to are non-empty strings
NoCommand == <<>>

\* column names and type values the code compares against
S_type == <<"type">>
S_mosi == <<"mosi">>
S_miso == <<"miso">>
S_MOSI == <<"MOSI">>
S_MISO == <<"MISO">>
T_disable == <<Q, "disable", Q>>
T_result == <<Q, "result", Q>>

-----------------------------------------------------------------------------
(* SPI.read_file, S-record/binary mode.  The loop body is a function from   *)
(* the locals before a line to the locals after it; st is the record of     *)
(* the locals, self.results and the position of the run.                    *)

\* (mutation of upper_byte: the two lines exchanged, a on the even positions)
UpperByteLinesSwapped(a, b) ==
    LET nibble_up_a == Shr(BitAnd(b, 240), 4)
        nibble_up_b == Shr(BitAnd(a, 240), 4)
    IN BitOr(Shl(BitAnd(nibble_up_a, 8), 4),
       BitOr(Shl(BitAnd(nibble_up_b, 8), 3),
       BitOr(Shl(BitAnd(nibble_up_a, 4), 3),
       BitOr(Shl(BitAnd(nibble_up_b, 4), 2),
       BitOr(Shl(BitAnd(nibble_up_a, 2), 2),
       BitOr(Shl(BitAnd(nibble_up_b, 2), 1),
       BitOr(Shl(BitAnd(nibble_up_a, 1), 1),
             BitAnd(nibble_up_b, 1))))))))

\* upper_byte of the FAST_DUAL_READ recovery, a = int(miso_val,16), b = int(mosi_val,16)
UpperByte(a, b) ==
    LET nibble_up_a == Shr(BitAnd(a, 240), 4)
        nibble_up_b == Shr(BitAnd(b, 240), 4)
    IN BitOr(Shl(BitAnd(nibble_up_a, 8), 4),
       BitOr(Shl(BitAnd(nibble_up_b, 8), 3),
       BitOr(Shl(BitAnd(nibble_up_a, 4), 3),
       BitOr(Shl(BitAnd(nibble_up_b, 4), 2),
       BitOr(Shl(BitAnd(nibble_up_a, 2), 2),
       BitOr(Shl(BitAnd(nibble_up_b, 2), 1),
       BitOr(Shl(BitAnd(nibble_up_a, 1), 1),
             BitAnd(nibble_up_b, 1))))))))

\* (mutation of lower_byte: the upper nibble of b read where the lower one is meant)
LowerByteUpperNibble(a, b) ==
    LET nibble_low_a == BitAnd(a, 15)
        nibble_low_b == Shr(BitAnd(b, 240), 4)
    IN BitOr(Shl(BitAnd(nibble_low_a, 8), 4),
       BitOr(Shl(BitAnd(nibble_low_b, 8), 3),
       BitOr(Shl(BitAnd(nibble_low_a, 4), 3),
       BitOr(Shl(BitAnd(nibble_low_b, 4), 2),
       BitOr(Shl(BitAnd(nibble_low_a, 2), 2),
       BitOr(Shl(BitAnd(nibble_low_b, 2), 1),
       BitOr(Shl(BitAnd(nibble_low_a, 1), 1),
             BitAnd(nibble_low_b, 1))))))))

\* lower_byte of the FAST_DUAL_READ recovery
LowerByte(a, b) ==
    LET nibble_low_a == BitAnd(a, 15)
        nibble_low_b == BitAnd(b, 15)
    IN BitOr(Shl(BitAnd(nibble_low_a, 8), 4),
       BitOr(Shl(BitAnd(nibble_low_b, 8), 3),
       BitOr(Shl(BitAnd(nibble_low_a, 4), 3),
       BitOr(Shl(BitAnd(nibble_low_b, 4), 2),
       BitOr(Shl(BitAnd(nibble_low_a, 2), 2),
       BitOr(Shl(BitAnd(nibble_low_b, 2), 1),
       BitOr(Shl(BitAnd(nibble_low_a, 1), 1),
             BitAnd(nibble_low_b, 1))))))))

\* the two data_buf.append calls of a FAST_DUAL_READ data cycle
DualAppend(buf, mv, sv) ==
    LET a == ParseHex(sv)
        b == ParseHex(mv)
    IN buf \o <<FormatByte(UpperByte(a, b)), FormatByte(LowerByte(a, b))>>

\* a cycle of an open READ transaction
\* (mutation of the address/data boundary: the third address byte taken as data)
ReadCycleShortAddress(st, mv, sv) ==
    IF st.count <= 2
    THEN [st EXCEPT !.address = @ \o mv, !.count = @ + 1]
    ELSE [st EXCEPT !.data_buf = Append(@, sv), !.count = @ + 1]

ReadCycle(st, mv, sv) ==
    IF st.count <= 3
    THEN [st EXCEPT !.address = @ \o mv, !.count = @ + 1]
    ELSE [st EXCEPT !.data_buf = Append(@, sv), !.count = @ + 1]

\* a cycle of an open FAST_READ transaction
FastReadCycle(st, mv, sv) ==
    IF st.count <= 3
    THEN [st EXCEPT !.address = @ \o mv, !.count = @ + 1]
    ELSE IF st.count = 4
    THEN [st EXCEPT !.count = @ + 1]
    ELSE [st EXCEPT !.data_buf = Append(@, sv), !.count = @ + 1]

\* a cycle of an open FAST_DUAL_READ transaction
FastDualReadCycle(st, mv, sv) ==
    IF st.count <= 3
    THEN [st EXCEPT !.address = @ \o mv, !.count = @ + 1]
    ELSE IF st.count = 4
    THEN [st EXCEPT !.count = @ + 1]
    ELSE [st EXCEPT !.data_buf = DualAppend(@, mv, sv), !.count = @ + 1]

\* one cycle of an open transaction (command_found is set); the code has the
\* same branches twice, for the export with a type column and for the one without
CommandCycle(st, mv, sv) ==
    IF st.command_found = device.READ THEN ReadCycle(st, mv, sv)
    ELSE IF st.command_found = device.FAST_READ THEN FastReadCycle(st, mv, sv)
    ELSE IF st.command_found = device.FAST_DUAL_READ THEN FastDualReadCycle(st, mv, sv)
    ELSE IF st.command_found = device.FAST_QUAD_READ THEN [st EXCEPT !.count = @ + 1]
    ELSE st

\* (mutation of the reset: the address kept)
CloseTransactionKeepAddress(st) ==
    [st EXCEPT !.command_found = NoCommand,
               !.results = Append(@, [address |-> st.address, data |-> st.data_buf]),
               !.data_buf = <<>>,
               !.count = 0]

\* (mutation of the reset: the cycle count kept)
CloseTransactionKeepCount(st) ==
    [st EXCEPT !.command_found = NoCommand,
               !.results = Append(@, [address |-> st.address, data |-> st.data_buf]),
               !.address = <<>>,
               !.data_buf = <<>>]

\* self.results.append({'address': address, 'data': data_buf}) and the reset after it
CloseTransaction(st) ==
    [st EXCEPT !.command_found = NoCommand,
               !.results = Append(@, [address |-> st.address, data |-> st.data_buf]),
               !.address = <<>>,
               !.data_buf = <<>>,
               !.count = 0]

\* (mutation of the missing-column stop: the row is passed over)
MissingDataLineSkipsRow(st) == st

\* print("ERROR: Can't find SPI header 'miso' or 'MISO'") and return
MissingDataLine(st) == [st EXCEPT !.pc = "returned"]

\* the gate with the count of result rows left out
FirstResultRowUngated(st) == TRUE

\* res_count == 0: no result row has been seen since the start of the
\* trace or the last disable row
FirstResultRow(st) == st.res_count = 0

\* a line of an export that has a type column
TypedLine(st, values) ==
    LET type == values[header_pos[S_type] + 1] IN
    IF type = T_disable THEN
        IF st.command_found # NoCommand
        THEN [CloseTransaction(st) EXCEPT !.res_count = 0]
        ELSE [st EXCEPT !.res_count = 0]
    ELSE IF type = T_result THEN
        IF InHeaders(S_miso) THEN
            IF S_mosi \notin DOMAIN header_pos THEN [st EXCEPT !.pc = "error"]
            ELSE
            LET mv == Strip0x(values[header_pos[S_mosi] + 1])
                sv == Strip0x(values[header_pos[S_miso] + 1])
                s1 == [st EXCEPT !.mosi_val = mv, !.miso_val = sv]
            IN  IF s1.command_found = NoCommand THEN
                    IF mv = device.READ /\ FirstResultRow(s1)
                    THEN [s1 EXCEPT !.command_found = device.READ, !.count = @ + 1]
                    ELSE IF mv = device.FAST_READ /\ FirstResultRow(s1)
                    THEN [s1 EXCEPT !.command_found = device.FAST_READ]
                    ELSE IF mv = device.FAST_DUAL_READ /\ FirstResultRow(s1)
                    THEN [s1 EXCEPT !.command_found = device.FAST_DUAL_READ]
                    ELSE IF mv = device.FAST_QUAD_READ /\ FirstResultRow(s1)
                    THEN [s1 EXCEPT !.command_found = device.FAST_QUAD_READ]
                    ELSE [s1 EXCEPT !.res_count = @ + 1]
                ELSE CommandCycle(s1, mv, sv)
        ELSE MissingDataLine(st)
    ELSE st

IsOpcode(mv) ==
    \/ mv = device.READ
    \/ mv = device.FAST_READ
    \/ mv = device.FAST_DUAL_READ
    \/ mv = device.FAST_QUAD_READ

\* a line of an export that has no type column
UntypedLine(st, values) ==
    IF ~InHeaders(S_miso) /\ ~InHeaders(S_MISO) THEN MissingDataLine(st)
    ELSE
    LET mname == IF InHeaders(S_miso) THEN S_mosi ELSE S_MOSI
        sname == IF InHeaders(S_miso) THEN S_miso ELSE S_MISO
    IN  IF mname \notin DOMAIN header_pos THEN [st EXCEPT !.pc = "error"]
        ELSE
        LET mv == Strip0x(values[header_pos[mname] + 1])
            sv == Strip0x(values[header_pos[sname] + 1])
            s1 == [st EXCEPT !.mosi_val = mv, !.miso_val = sv]
            s2 == IF s1.command_found # NoCommand /\ s1.count > 4 /\ IsOpcode(mv)
                  THEN CloseTransaction(s1)
                  ELSE s1
        IN  IF s2.command_found = NoCommand THEN
                IF mv = device.READ
                THEN [s2 EXCEPT !.command_found = device.READ, !.count = @ + 1]
                ELSE IF mv = device.FAST_READ
                THEN [s2 EXCEPT !.command_found = device.FAST_READ, !.count = @ + 1]
                ELSE IF mv = device.FAST_DUAL_READ
                THEN [s2 EXCEPT !.command_found = device.FAST_DUAL_READ, !.count = @ + 1]
                ELSE IF mv = device.FAST_QUAD_READ
                THEN [s2 EXCEPT !.command_found = device.FAST_QUAD_READ, !.count = @ + 1]
                ELSE s2
            ELSE CommandCycle(s2, mv, sv)

\* the body of the loop for one data line, already split on ','
\* the skip with the line counted as a cycle
SkipRowCounted(st) == [st EXCEPT !.count = @ + 1]

\* continue: the line is left out
SkipRow(st) == st

ReadLine(st, values) ==
    IF Len(values) # Cardinality(DOMAIN header_pos) THEN SkipRow(st)
    ELSE IF InHeaders(S_type) THEN TypedLine(st, values)
    ELSE UntypedLine(st, values)

\* the loop over the lines of a file, from locals st
RECURSIVE RunLines(_, _)
RunLines(st, lines) ==
    IF lines = <<>> \/ st.pc # "reading" THEN st
    ELSE CHOOSE end \in {RunLines(n, Tail(lines)) : n \in {ReadLine(st, Head(lines))}} : TRUE

\* the header line: self.headers = line.replace('"','').split(',')
StripQuotes(fields) == [k \in 1..Len(fields) |-> Remove(fields[k], <<Q>>)]

\* self.header_pos[h] = header_pos_count, a later duplicate overwriting an earlier one
HeaderPos(hs) ==
    [h \in {hs[k] : k \in 1..Len(hs)} |->
        (CHOOSE k \in 1..Len(hs) : hs[k] = h /\ \A j \in (k + 1)..Len(hs) : hs[j] # h) - 1]

-----------------------------------------------------------------------------
(* The exports the reader is run on *)

\* header lines, split on ',': the export table (with a type column), the
\* analyzer export (without), each with lower- and upper-case line names, and
\* exports of another analyzer in both shapes
HeaderLines ==
    { << <<"Time [s]">>, <<"name">>, <<"type">>, <<Q, "mosi", Q>>, <<Q, "miso", Q>> >>,
      << <<"Time [s]">>, <<"name">>, <<"type">>, <<"MOSI">>, <<"MISO">> >>,
      << <<"Time [s]">>, <<"Packet ID">>, <<"mosi">>, <<"miso">> >>,
      << <<"Time [s]">>, <<"Packet ID">>, <<"MOSI">>, <<"MISO">> >>,
      << <<"name">>, <<"type">>, <<Q, "data", Q>> >>,
      << <<"Time [s]">>, <<"Value">> >> }

\* (command line, data line) values of a result row, as exported
BytePairs ==
    { << <<"0","x","0","3">>, <<"0","x","A","A">> >>,
      << <<"0","x","0","B">>, <<"0","x","B","B">> >>,
      << <<"0","x","3","B">>, <<"0","x","5","5">> >>,
      << <<"0","x","E","B">>, <<"0","x","0","0">> >>,
      << <<"0","x","0","F">>, <<"0","x","F","0">> >> }

\* a data line under the header hs
MkRow(hs, type, mosi, miso) ==
    [k \in 1..Len(hs) |->
        IF hs[k] = S_type THEN type
        ELSE IF hs[k] \in {S_mosi, S_MOSI} THEN mosi
        ELSE IF hs[k] \in {S_miso, S_MISO} THEN miso
        ELSE <<"0">>]

HasType(hs) == \E k \in 1..Len(hs) : hs[k] = S_type

Rows(hs) ==
    IF HasType(hs)
    THEN {MkRow(hs, T_disable, <<>>, <<>>)}
         \cup {MkRow(hs, T_result, p[1], p[2]) : p \in BytePairs}
    ELSE {MkRow(hs, <<>>, p[1], p[2]) : p \in BytePairs}

\* what the history keeps of a line
Field(values, names) ==
    IF \E n \in names : n \in DOMAIN header_pos
    THEN values[header_pos[CHOOSE n \in names : n \in DOMAIN header_pos] + 1]
    ELSE <<>>

Seen(values) ==
    [kind |-> IF Len(values) # Cardinality(DOMAIN header_pos) THEN "skipped"
              ELSE IF ~InHeaders(S_type) THEN "row"
              ELSE IF Field(values, {S_type}) = T_disable THEN "disable"
              ELSE IF Field(values, {S_type}) = T_result THEN "result"
              ELSE "other",
     mosi |-> IF Len(values) # Cardinality(DOMAIN header_pos) THEN <<>>
              ELSE Strip0x(Field(values, {S_mosi, S_MOSI})),
     miso |-> IF Len(values) # Cardinality(DOMAIN header_pos) THEN <<>>
              ELSE Strip0x(Field(values, {S_miso, S_MISO}))]

-----------------------------------------------------------------------------
(* The reader as a state machine: one step per line of the export *)

Locals ==
    [pc |-> pc, mosi_val |-> mosi_val, miso_val |-> miso_val, data_buf |-> data_buf,
     command_found |-> command_found, count |-> count, address |-> address,
     res_count |-> res_count, results |-> results]

SetLocals(n) ==
    /\ pc' = n.pc
    /\ mosi_val' = n.mosi_val
    /\ miso_val' = n.miso_val
    /\ data_buf' = n.data_buf
    /\ command_found' = n.command_found
    /\ count' = n.count
    /\ address' = n.address
    /\ res_count' = n.res_count
    /\ results' = n.results

\* the locals of Analyzer.read_file and CAN.read_file, which the SPI run
\* does not enter
BaseIdle ==
    /\ data_filter = <<>>
    /\ before = 0
    /\ after = 0
    /\ before_buffer = <<>>
    /\ after_buffer = <<>>

NoEntry == [id |-> <<>>, data |-> <<>>]

EmptyCounter == [x \in {} |-> 0]

CanIdle ==
    /\ identifier = FALSE
    /\ temp_entry = NoEntry
    /\ id_counter = EmptyCounter

\* print_results has not started
EncoderIdle ==
    /\ e_idx = 0
    /\ c_idx = 0
    /\ printed = <<>>
    /\ seq_read = <<>>
    /\ mem_map = <<>>
    /\ image = <<>>
    /\ results_in = <<>>
    /\ first_run = <<>>

SpiInit ==
    /\ pc = "reading"
    /\ first_line = FALSE
    /\ headers = <<>>
    /\ header_pos = <<>>
    /\ i = 0
    /\ mosi_val = <<>>
    /\ miso_val = <<>>
    /\ data_buf = <<>>
    /\ command_found = NoCommand
    /\ count = 0
    /\ address = <<>>
    /\ res_count = 0
    /\ results = <<>>
    /\ trace = <<>>
    /\ prev_results = <<>>
    /\ EncoderIdle
    /\ BaseIdle
    /\ CanIdle

ReadHeaderLine ==
    /\ pc = "reading"
    /\ ~first_line
    /\ \E line \in HeaderLines :
         /\ headers' = StripQuotes(line)
         /\ header_pos' = HeaderPos(StripQuotes(line))
    /\ first_line' = TRUE
    /\ UNCHANGED <<pc, i, mosi_val, miso_val, data_buf, command_found, count,
                   address, res_count, results, trace, prev_results, encoderVars, baseVars, canVars>>

ReadDataLine ==
    /\ pc = "reading"
    /\ first_line
    /\ i < MaxRows
    /\ \E values \in Rows(headers) :
         /\ \E n \in {ReadLine(Locals, values)} : SetLocals(n)
         /\ trace' = Append(trace, Seen(values))
    /\ i' = i + 1
    /\ prev_results' = results
    /\ UNCHANGED <<first_line, headers, header_pos, encoderVars, baseVars, canVars>>

\* the results with the transaction still open appended to them
EndResultsWithOpen(st) ==
    IF st.command_found # NoCommand
    THEN Append(st.results, [address |-> st.address, data |-> st.data_buf])
    ELSE st.results

\* the results once the loop is over: nothing is appended after the loop
EndResults(st) == st.results

EndOfFile ==
    /\ pc = "reading"
    /\ pc' = "done"
    /\ results' = EndResults(Locals)
    /\ UNCHANGED <<readerVars, baseVars, canVars, encoderVars>>

SpiNext == ReadHeaderLine \/ ReadDataLine \/ EndOfFile

SpiSpec == SpiInit /\ [][SpiNext]_vars

-----------------------------------------------------------------------------
(* Transactions of the reader, read off the history of consumed lines *)

IsResult(e) == e.kind = "result"

\* the header Time [s],name,type,mosi,miso
ScenarioHeader == << <<"Time [s]">>, <<"name">>, <<"type">>, <<"mosi">>, <<"miso">> >>

\* the export has a type column and both line columns under their lower-case names
TypedReadable == InHeaders(S_type) /\ InHeaders(S_mosi) /\ InHeaders(S_miso)

\* the export has no type column and both line columns, in either case
UntypedReadable ==
    /\ ~InHeaders(S_type)
    /\ \/ InHeaders(S_mosi) /\ InHeaders(S_miso)
       \/ InHeaders(S_MOSI) /\ InHeaders(S_MISO)

\* position of the last disable row before position n, 0 when there is none
LastBoundary(n) ==
    IF \E k \in 1..(n - 1) : trace[k].kind = "disable"
    THEN CHOOSE k \in 1..(n - 1) :
            /\ trace[k].kind = "disable"
            /\ \A j \in (k + 1)..(n - 1) : trace[j].kind # "disable"
    ELSE 0

\* the result rows between the last boundary before line n and line n
SegmentBefore(n) == SelectSeq(SubSeq(trace, LastBoundary(n) + 1, n - 1), IsResult)

\* the result rows since the last boundary
CurrentSegment == SegmentBefore(Len(trace) + 1)

LastIsDisable == trace # <<>> /\ trace[Len(trace)].kind = "disable"

\* concatenation of the command-line bytes of rows from..to of rows
RECURSIVE MosiConcat(_, _, _)
MosiConcat(rows, from, to) ==
    IF from > to THEN <<>>
    ELSE rows[from].mosi \o MosiConcat(rows, from + 1, to)

\* the data-line bytes of the rows after the first skip rows
MisoFrom(rows, skip) == [k \in 1..(Len(rows) - skip) |-> rows[k + skip].miso]

Min(a, b) == IF a <= b THEN a ELSE b

\* rows of scenario A: opcode 03, address 00 01 02, data AA BB, disable
ResultRow(m, s) == MkRow(ScenarioHeader, T_result, <<"0", "x">> \o m, <<"0", "x">> \o s)

ScenarioA ==
    << ResultRow(<<"0","3">>, <<"F","F">>),
       ResultRow(<<"0","0">>, <<"F","F">>),
       ResultRow(<<"0","1">>, <<"F","F">>),
       ResultRow(<<"0","2">>, <<"F","F">>),
       ResultRow(<<"F","F">>, <<"A","A">>),
       ResultRow(<<"F","F">>, <<"B","B">>),
       MkRow(ScenarioHeader, T_disable, <<>>, <<>>) >>

(* C1: in an export with a type column, a READ opcode on the first result   *)
(* row after the start or a disable row, k >= 3 further result rows and a   *)
(* disable row append exactly one transaction: address = the command-line   *)
(* bytes of the three rows after the opcode row, data = the data-line bytes *)
(* of the rows after those, in order.  Scenario A (03; 00 01 02; AA BB;     *)
(* disable) gives address 000102 and data AA, BB.                           *)
C1_ReadTransaction ==
    /\ (TypedReadable /\ LastIsDisable) =>
          LET seg == SegmentBefore(Len(trace)) IN
          (Len(seg) >= 4 /\ seg[1].mosi = device.READ) =>
              results = Append(prev_results,
                               [address |-> MosiConcat(seg, 2, 4),
                                data |-> MisoFrom(seg, 4)])
    /\ (pc = "reading" /\ first_line /\ i = 0 /\ headers = ScenarioHeader) =>
          RunLines(Locals, ScenarioA).results =
              << [address |-> <<"0","0","0","1","0","2">>,
                  data |-> << <<"A","A">>, <<"B","B">> >>] >>

\* a READ transaction with two data bytes has just been closed by a disable row
C1_Witness ==
    /\ TypedReadable /\ LastIsDisable
    /\ Len(SegmentBefore(Len(trace))) = 6
    /\ SegmentBefore(Len(trace))[1].mosi = device.READ
    /\ Len(results) = 1
    /\ Len(results[1].data) = 2
    /\ Len(results[1].address) = 6

\* the first line whose command-line byte is an opcode, 0 when there is none
FirstOpcode ==
    IF \E k \in 1..Len(trace) : IsOpcode(trace[k].mosi)
    THEN CHOOSE k \in 1..Len(trace) :
            /\ IsOpcode(trace[k].mosi)
            /\ \A j \in 1..(k - 1) : ~IsOpcode(trace[j].mosi)
    ELSE 0

\* FAST_READ in an export with a type column: three address rows after the
\* opcode row, one dummy row, then data rows
C2_FastReadTyped ==
    TypedReadable =>
        LET cur == CurrentSegment IN
        (Len(cur) >= 1 /\ cur[1].mosi = device.FAST_READ) =>
            /\ address = MosiConcat(cur, 2, Min(4, Len(cur)))
            /\ data_buf = MisoFrom(cur, 5)

\* FAST_READ in an export without a type column: the same cycles
C2_FastReadUntyped ==
    UntypedReadable =>
        LET p == FirstOpcode
            r == SubSeq(trace, p + 1, Len(trace))
        IN  (/\ p > 0
             /\ trace[p].mosi = device.FAST_READ
             /\ \A k \in 5..Len(r) : ~IsOpcode(r[k].mosi)) =>
                /\ address = MosiConcat(r, 1, Min(3, Len(r)))
                /\ data_buf = MisoFrom(r, 4)

(* C2: for a FAST_READ transaction, in both export shapes, the cycle count  *)
(* is 1 on the opcode row: the address is the command-line bytes of the     *)
(* three rows after the opcode row, the fourth row after it adds nothing,   *)
(* and every later row of the transaction appends its data-line byte.       *)
C2_FastReadCycles == C2_FastReadTyped /\ C2_FastReadUntyped

(* C3: under the header Time [s],name,type,mosi,miso the rows opcode 3B,    *)
(* three address cycles, one dummy cycle, one data cycle with data line F0  *)
(* and command line 0F, disable give one transaction: address = the three   *)
(* address bytes, data = AA, 55.                                            *)
C3_ScenarioB ==
    (headers = ScenarioHeader /\ LastIsDisable) =>
        LET seg == SegmentBefore(Len(trace)) IN
        (/\ Len(seg) = 6
         /\ seg[1].mosi = device.FAST_DUAL_READ
         /\ seg[6].miso = <<"F","0">>
         /\ seg[6].mosi = <<"0","F">>) =>
            results = Append(prev_results,
                             [address |-> MosiConcat(seg, 2, 4),
                              data |-> << <<"A","A">>, <<"5","5">> >>])

-----------------------------------------------------------------------------
(* One FAST_DUAL_READ data cycle over every pair of bytes.  The reader is    *)
(* started where a dual read has had its first data cycle (data line F0,     *)
(* command line 0F); the next line carries any two bytes.                    *)

InitLocals ==
    [pc |-> "reading", mosi_val |-> <<>>, miso_val |-> <<>>, data_buf |-> <<>>,
     command_found |-> NoCommand, count |-> 0, address |-> <<>>, res_count |-> 0,
     results |-> <<>>]

\* the dual-read opcode row followed by n rows with command line 0F, data line F0
DualPrefix(hs, n) ==
    <<MkRow(hs, T_result, <<"0","x","3","B">>, <<"0","x","5","5">>)>>
    \o [k \in 1..n |-> MkRow(hs, T_result, <<"0","x","0","F">>, <<"0","x","F","0">>)]

\* the exports whose line columns the reader finds
ReadableHeaderLines ==
    {line \in HeaderLines :
        LET hs == StripQuotes(line)
            has(name) == \E k \in 1..Len(hs) : hs[k] = name
        IN  has(S_miso) \/ (~has(S_type) /\ has(S_MISO))}

DualInit ==
    /\ first_line = TRUE
    /\ \E line \in ReadableHeaderLines :
         /\ headers = StripQuotes(line)
         /\ header_pos = HeaderPos(StripQuotes(line))
    /\ \E n \in 1..MaxRows :
         /\ \A m \in 1..n :
              LET st == RunLines(InitLocals, DualPrefix(headers, m))
              IN  (Len(st.data_buf) = 2) <=> (m = n)
         /\ \E st \in {RunLines(InitLocals, DualPrefix(headers, n))} :
              /\ pc = st.pc
              /\ mosi_val = st.mosi_val
              /\ miso_val = st.miso_val
              /\ data_buf = st.data_buf
              /\ command_found = st.command_found
              /\ count = st.count
              /\ address = st.address
              /\ res_count = st.res_count
              /\ results = st.results
         /\ i = n + 1
         /\ trace = [k \in 1..(n + 1) |-> Seen(DualPrefix(headers, n)[k])]
    /\ prev_results = <<>>
    /\ EncoderIdle
    /\ BaseIdle
    /\ CanIdle

HexChars == {UpperDigits[k] : k \in 1..16}

DualDataLine ==
    /\ pc = "reading"
    /\ command_found = device.FAST_DUAL_READ
    /\ Len(data_buf) = 2
    /\ \E m1 \in HexChars, m2 \in HexChars, s1 \in HexChars, s2 \in HexChars :
         \E values \in {MkRow(headers, T_result, <<"0", "x", m1, m2>>, <<"0", "x", s1, s2>>)} :
            /\ \E n \in {ReadLine(Locals, values)} : SetLocals(n)
            /\ trace' = Append(trace, Seen(values))
    /\ i' = i + 1
    /\ prev_results' = results
    /\ UNCHANGED <<first_line, headers, header_pos, encoderVars, baseVars, canVars>>

DualNext == DualDataLine

DualSpec == DualInit /\ [][DualNext]_vars

\* bit k of x
Bit(x, k) == (x \div 2^k) % 2

\* the second data cycle of the dual read has been taken
SecondDualCycle ==
    /\ command_found = device.FAST_DUAL_READ
    /\ Len(trace) = i
    /\ Len(data_buf) > 2

(* C4: a FAST_DUAL_READ data cycle with data-line byte a and command-line   *)
(* byte b appends exactly two bytes, upper then lower: the upper byte has   *)
(* bits 7,5,3,1 = bits 7,6,5,4 of a and bits 6,4,2,0 = bits 7,6,5,4 of b,   *)
(* the lower byte has bits 7,5,3,1 = bits 3,2,1,0 of a and bits 6,4,2,0 =   *)
(* bits 3,2,1,0 of b; the data of a dual read has even length after every   *)
(* row.                                                                     *)
C4_DualInterleave ==
    /\ command_found = device.FAST_DUAL_READ => Len(data_buf) % 2 = 0
    /\ SecondDualCycle =>
          LET a == ParseHex(trace[Len(trace)].miso)
              b == ParseHex(trace[Len(trace)].mosi)
              upper == ParseHex(data_buf[3])
              lower == ParseHex(data_buf[4])
          IN  /\ Len(data_buf) = 4
              /\ SubSeq(data_buf, 1, 2) = << <<"A","A">>, <<"5","5">> >>
              /\ Len(data_buf[3]) = 2 /\ Len(data_buf[4]) = 2
              /\ \A k \in 0..3 :
                    /\ Bit(upper, 2 * k + 1) = Bit(a, k + 4)
                    /\ Bit(upper, 2 * k) = Bit(b, k + 4)
                    /\ Bit(lower, 2 * k + 1) = Bit(a, k)
                    /\ Bit(lower, 2 * k) = Bit(b, k)
              /\ upper < 256 /\ lower < 256

\* the data cycle with data line F0 and command line 0F has appended AA, 55
C4_Witness ==
    /\ SecondDualCycle
    /\ InHeaders(S_type)
    /\ trace[Len(trace)].miso = <<"F","0">>
    /\ trace[Len(trace)].mosi = <<"0","F">>
    /\ data_buf = << <<"A","A">>, <<"5","5">>, <<"A","A">>, <<"5","5">> >>

\* the bits at the odd and at the even positions of a byte, as a nibble
OddBits(x) == 8 * Bit(x, 7) + 4 * Bit(x, 5) + 2 * Bit(x, 3) + Bit(x, 1)
EvenBits(x) == 8 * Bit(x, 6) + 4 * Bit(x, 4) + 2 * Bit(x, 2) + Bit(x, 0)

(* C5: the dual-read interleave is invertible: the odd-position bits of the *)
(* (upper, lower) output bytes are the data-line byte and the even-position *)
(* bits are the command-line byte, for every pair of input bytes.           *)
C5_DualInvertible ==
    SecondDualCycle =>
        LET upper == ParseHex(data_buf[Len(data_buf) - 1])
            lower == ParseHex(data_buf[Len(data_buf)])
        IN  /\ 16 * OddBits(upper) + OddBits(lower) = ParseHex(trace[Len(trace)].miso)
            /\ 16 * EvenBits(upper) + EvenBits(lower) = ParseHex(trace[Len(trace)].mosi)

\* a data cycle with data line A5 and command line C3 has been taken
C5_Witness ==
    /\ SecondDualCycle
    /\ ~InHeaders(S_type)
    /\ trace[Len(trace)].miso = <<"A","5">>
    /\ trace[Len(trace)].mosi = <<"C","3">>
    /\ Len(data_buf) = 4

-----------------------------------------------------------------------------
(* SPI.print_results, S-record mode (args.srecord) *)

SRECORD_DATA_SIZE == 32
address_size == 3
checksum_size == 1

Max(a, b) == IF a >= b THEN a ELSE b

\* Analyzer.divide_chunks: l[i:i+n] for i in range(0, len(l), n)
DivideChunks(l, n) ==
    [k \in 1..((Len(l) + n - 1) \div n) |->
        SubSeq(l, (k - 1) * n + 1, Min(k * n, Len(l)))]

\* a str taken as a sequence: its characters, each a str of length one
Chars(str) == [k \in 1..Len(str) |-> <<str[k]>>]

\* data_chunks.  With at most 32 data bytes it is the data list itself, so
\* that the loop variable chunk is one byte string: len(chunk), the loop over
\* chunk and ''.join(chunk) then run over its characters.
DataChunks(entry) ==
    IF Len(entry.data) > SRECORD_DATA_SIZE
    THEN DivideChunks(entry.data, SRECORD_DATA_SIZE)
    ELSE [k \in 1..Len(entry.data) |-> Chars(entry.data[k])]

\* byte_count, as the string printed
ByteCount(chunk) ==
    LET byte_count == Len(chunk) + address_size + checksum_size
    IN  IF byte_count <= 15
        THEN <<"0">> \o HexLower(byte_count)
        ELSE HexLower(byte_count)

\* [s[i:i+2] for i in range(0, len(s), 2)]
Pairs(str) ==
    [k \in 1..((Len(str) + 1) \div 2) |-> SubSeq(str, 2 * k - 1, Min(2 * k, Len(str)))]

\* sum of int(b, 16) over the elements b of a sequence of strings
RECURSIVE SumHex(_)
SumHex(strs) ==
    IF strs = <<>> THEN 0
    ELSE ParseHex(Head(strs)) + SumHex(Tail(strs))

\* ''.join(strs)
RECURSIVE Join(_)
Join(strs) ==
    IF strs = <<>> THEN <<>>
    ELSE Head(strs) \o Join(Tail(strs))

\* (mutation of checksum: the two's complement taken instead of the one's complement)
ChecksumTwosComplement(byte_count, addr, chunk) ==
    LET total == ParseHex(byte_count) + SumHex(Pairs(addr)) + SumHex(chunk)
    IN  PadLeft(Upper(HexLower((256 - (total % 256)) % 256)), 2)

\* checksum, as the string printed
Checksum(byte_count, addr, chunk) ==
    LET temp_checksum == SumHex(Pairs(addr)) + SumHex(chunk)
        sum == HexLower(ParseHex(byte_count) + temp_checksum)
        lsb == SubSeq(sum, Max(1, Len(sum) - 1), Len(sum))
        ones == Upper(HexLower(BitXor(ParseHex(lsb), ParseHex(<<"f", "f">>))))
    IN  IF Len(ones) = 1 THEN <<"0">> \o ones ELSE ones

\* "{:0>6x}".format(int(entry['address'], 16) + SRECORD_DATA_SIZE).upper()
NextAddress(addr) == Upper(PadLeft(HexLower(ParseHex(addr) + SRECORD_DATA_SIZE), 6))

\* the arguments of print("S2%s%s%s%s" % ...); entry is history: the index of
\* the entry the line was printed for
S2Line(e, addr, chunk) ==
    [byte_count |-> ByteCount(chunk),
     address |-> addr,
     data |-> Join(chunk),
     checksum |-> Checksum(ByteCount(chunk), addr, chunk),
     entry |-> e]

\* the text of a printed line
LineText(l) == <<"S", "2">> \o l.byte_count \o l.address \o l.data \o l.checksum

\* one pass of the loop over the chunks of the entries
SrecChunk ==
    /\ pc = "srecord"
    /\ e_idx <= Len(results)
    /\ \E chunks \in {DataChunks(results[e_idx])} :
         IF c_idx > Len(chunks)
         THEN /\ e_idx' = e_idx + 1
              /\ c_idx' = 1
              /\ UNCHANGED <<printed, results>>
         ELSE /\ printed' = Append(printed, S2Line(e_idx, results[e_idx].address, chunks[c_idx]))
              /\ results' = [results EXCEPT ![e_idx].address = NextAddress(@)]
              /\ c_idx' = c_idx + 1
              /\ e_idx' = e_idx
    /\ UNCHANGED <<pc, readerVars, baseVars, canVars, seq_read, mem_map, image, results_in, first_run>>

SrecDone ==
    /\ pc = "srecord"
    /\ e_idx > Len(results)
    /\ pc' = "printed"
    /\ UNCHANGED <<results, readerVars, baseVars, canVars, encoderVars>>

\* the reader has finished; its locals play no part in print_results
ReaderFinished ==
    /\ first_line = TRUE
    /\ headers = ScenarioHeader
    /\ header_pos = HeaderPos(ScenarioHeader)
    /\ i = 0
    /\ mosi_val = <<>>
    /\ miso_val = <<>>
    /\ data_buf = <<>>
    /\ command_found = NoCommand
    /\ count = 0
    /\ address = <<>>
    /\ res_count = 0
    /\ trace = <<>>
    /\ prev_results = <<>>

\* a transaction of n data bytes: the bytes seed+7, seed+14, ... (mod 256)
Transaction(addr, n, seed) ==
    [address |-> addr, data |-> [k \in 1..n |-> FormatByte((seed + 7 * k) % 256)]]

SrecAddresses ==
    { <<"0","0","0","0","0","0">>, <<"0","1","F","F","E","0">>, <<"F","F","F","F","F","0">> }

\* the result sets handed to the S-record encoder: one transaction of up to
\* MaxData bytes, or two transactions
SrecInputs ==
    { <<Transaction(a, n, seed)>> : a \in SrecAddresses, n \in 0..MaxData, seed \in {0, 163} }
    \cup
    { <<Transaction(<<"0","0","0","0","0","0">>, n1, 0),
        Transaction(<<"0","0","1","0","0","0">>, n2, 163)>> :
            n1 \in {0, 1, 32, 33}, n2 \in {0, 2, 33} }

SrecInit ==
    /\ pc = "srecord"
    /\ ReaderFinished
    /\ BaseIdle
    /\ CanIdle
    /\ results \in SrecInputs
    /\ results_in = results
    /\ first_run = <<>>
    /\ e_idx = 1
    /\ c_idx = 1
    /\ printed = <<>>
    /\ seq_read = <<>>
    /\ mem_map = <<>>
    /\ image = <<>>

SrecNext == SrecChunk \/ SrecDone

SrecSpec == SrecInit /\ [][SrecNext]_vars

-----------------------------------------------------------------------------
(* the S-record output *)

\* the lines printed for entry e, in order
LinesOf(e) == SelectSeq(printed, LAMBDA l : l.entry = e)

\* the number of data bytes a printed line carries
BytesOn(l) == Len(l.data) \div 2

\* the number of data bytes carried by the first n of a sequence of lines
RECURSIVE BytesBefore(_, _)
BytesBefore(lines, n) ==
    IF n = 0 THEN 0
    ELSE BytesBefore(lines, n - 1) + BytesOn(lines[n])

\* C6: once the S-record encoder has finished, a transaction of n >= 1 data
\* bytes has ceil(n/32) lines, line j carries the data bytes 32(j-1) ..
\* min(32j, n)-1 in order, and its byte count is the number of data bytes on
\* the line plus 3 plus 1; n <= 32 gives a single line.
C6_ChunkLines ==
    (pc = "printed" /\ results_in # <<>>) =>
        \A e \in 1..Len(results_in) :
            LET data == results_in[e].data
                n == Len(data)
                lines == LinesOf(e)
            IN  n >= 1 =>
                  /\ Len(lines) = (n + 31) \div 32
                  /\ \A j \in 1..Len(lines) :
                        /\ lines[j].data = Join(SubSeq(data, 32 * (j - 1) + 1, Min(32 * j, n)))
                        /\ ParseHex(lines[j].byte_count) = BytesOn(lines[j]) + 3 + 1

\* the sum a checksum closes: byte count, address bytes, data bytes (whole
\* bytes) and the checksum itself
LineSum(l) ==
    ParseHex(l.byte_count) + SumHex(Pairs(l.address)) + SumHex(Pairs(l.data))
        + ParseHex(l.checksum)

C8_LineAddresses ==
    \A e \in 1..Len(results_in) :
        LET lines == LinesOf(e)
        IN  \A j \in 1..Len(lines) :
                ParseHex(lines[j].address)
                    = ParseHex(results_in[e].address) + BytesBefore(lines, j - 1)

-----------------------------------------------------------------------------
(* SPI.print_results, binary mode (args.binary) *)

\* bytes.fromhex(s) for a string of hex digit pairs
FromHex(s) == [k \in 1..(Len(s) \div 2) |-> ParseHex(SubSeq(s, 2 * k - 1, 2 * k))]

\* [b'\x00'] * self.device['SIZE']
ZeroMap == [k \in 1..device.SIZE |-> <<0>>]

\* (mutation of the list index check: every offset accepted)
InRangeAlways(mm, addr_offset) == TRUE

\* whether mem_map[addr_offset] names a cell; otherwise the assignment raises
\* IndexError
InRange(mm, addr_offset) == addr_offset < Len(mm)

\* (mutation of the store: the first byte stored in a cell is kept)
StoreByteFirstWins(mm, addr_offset, entry_byte) ==
    IF mm[addr_offset + 1] = <<0>>
    THEN [mm EXCEPT ![addr_offset + 1] = FromHex(entry_byte)]
    ELSE mm

\* mem_map[addr_offset] = bytes.fromhex(entry_byte)
StoreByte(mm, addr_offset, entry_byte) ==
    [mm EXCEPT ![addr_offset + 1] = FromHex(entry_byte)]

\* (mutation of the write: the byte put at the start of the file)
WriteByteInFront(fd, entry_byte) == FromHex(entry_byte) \o fd

\* fd.write(bytes.fromhex(entry_byte)) on seq_read.bin
WriteByte(fd, entry_byte) == fd \o FromHex(entry_byte)

\* (mutation of the loop body: the entry's address advanced past the byte, as
\* the S-record loop advances it)
EntryAfterByteAdvanced(entry) ==
    [entry EXCEPT !.address = Upper(PadLeft(HexLower(ParseHex(@) + 1), 6))]

\* the entry after one pass of the loop over its data bytes: the loop reads
\* entry['address'] and entry['data'] and assigns to neither
EntryAfterByte(entry) == entry

\* one pass of the loop over the data bytes of the entries; c_idx - 1 is the
\* enumerate index i
BinByte ==
    /\ pc = "binary"
    /\ e_idx <= Len(results)
    /\ IF c_idx > Len(results[e_idx].data)
       THEN /\ e_idx' = e_idx + 1
            /\ c_idx' = 1
            /\ UNCHANGED <<pc, results, mem_map, seq_read>>
       ELSE LET addr_offset == ParseHex(results[e_idx].address) + (c_idx - 1)
                entry_byte == results[e_idx].data[c_idx]
            IN  IF Len(entry_byte) % 2 # 0 \/ ~InRange(mem_map, addr_offset)
                THEN /\ pc' = "error"
                     /\ UNCHANGED <<results, e_idx, c_idx, mem_map, seq_read>>
                ELSE /\ mem_map' = StoreByte(mem_map, addr_offset, entry_byte)
                     /\ seq_read' = WriteByte(seq_read, entry_byte)
                     /\ results' = [results EXCEPT ![e_idx] = EntryAfterByte(@)]
                     /\ c_idx' = c_idx + 1
                     /\ UNCHANGED <<pc, e_idx>>
    /\ UNCHANGED <<readerVars, baseVars, canVars, printed, image, results_in, first_run>>

\* mem_map.bin: every cell of mem_map written in order
BinWriteImage ==
    /\ pc = "binary"
    /\ e_idx > Len(results)
    /\ image' = Join(mem_map)
    /\ pc' = "printed"
    /\ UNCHANGED <<results, readerVars, baseVars, canVars, e_idx, c_idx, printed, seq_read, mem_map, results_in, first_run>>

\* the address of offset n as the reader builds it: 6 upper-case hex digits
AddressOf(n) == PadLeft(Upper(HexLower(n)), 6)

BinOffsets == {0, 2, device.SIZE - 2, device.SIZE - 1, device.SIZE}

BinBytes == <<<<"A", "A">>, <<"0", "0">>, <<"5", "5">>, <<"0", "F">>>>

BinTransactions ==
    { [address |-> AddressOf(a),
       data |-> [k \in 1..n |-> BinBytes[((from + k - 2) % Len(BinBytes)) + 1]]] :
        a \in BinOffsets, n \in 0..MaxBinData, from \in 1..2 }

\* the result sets handed to the binary encoder: one or two transactions
BinInputs ==
    { <<t>> : t \in BinTransactions } \cup { <<t, u>> : t, u \in BinTransactions }

\* the state once mem_map is allocated and seq_read.bin is opened
BinInit ==
    /\ pc = "binary"
    /\ ReaderFinished
    /\ BaseIdle
    /\ CanIdle
    /\ results \in BinInputs
    /\ results_in = results
    /\ first_run = <<>>
    /\ e_idx = 1
    /\ c_idx = 1
    /\ printed = <<>>
    /\ seq_read = <<>>
    /\ mem_map = ZeroMap
    /\ image = <<>>

\* print_results called once more on the same results, the files of the
\* first call kept for comparison
BinEncodeAgain ==
    /\ pc = "printed"
    /\ mem_map # <<>>
    /\ first_run = <<>>
    /\ first_run' = <<[seq_read |-> seq_read, image |-> image]>>
    /\ pc' = "binary"
    /\ e_idx' = 1
    /\ c_idx' = 1
    /\ seq_read' = <<>>
    /\ mem_map' = ZeroMap
    /\ image' = <<>>
    /\ UNCHANGED <<results, readerVars, baseVars, canVars, printed, results_in>>

BinNext == BinByte \/ BinWriteImage \/ BinEncodeAgain

BinSpec == BinInit /\ [][BinNext]_vars

\* the (entry, byte index) pairs whose absolute offset is off
Targets(off) ==
    { t \in { <<e, k>> : e \in 1..Len(results_in), k \in 1..(MaxBinData + 1) } :
        /\ t[2] <= Len(results_in[t[1]].data)
        /\ ParseHex(results_in[t[1]].address) + (t[2] - 1) = off }

\* the last transaction in result order that targets off
LastTarget(off) ==
    CHOOSE t \in Targets(off) : \A u \in Targets(off) : u[1] <= t[1]

\* some data byte of the result set has an absolute offset beyond the image
Overflow == \E off \in device.SIZE..(device.SIZE + MaxBinData + 1) : Targets(off) # {}

\* C9: after binary encoding of a result set whose offsets are all in range
\* the image has SIZE cells; a targeted cell holds the byte of the last
\* transaction in result order that targets it, any other cell is 0.
C9_MemoryImage ==
    (pc = "printed" /\ ~Overflow) =>
        /\ Len(image) = device.SIZE
        /\ \A off \in 0..(device.SIZE - 1) :
              image[off + 1] =
                  IF Targets(off) = {} THEN 0
                  ELSE ParseHex(results_in[LastTarget(off)[1]].data[LastTarget(off)[2]])

\* the image is written and a later transaction has overwritten a different
\* byte of an earlier one
C9_Witness ==
    /\ pc = "printed"
    /\ ~Overflow
    /\ Len(image) = device.SIZE
    /\ \E off \in 0..(device.SIZE - 1) :
          \E t, u \in Targets(off) :
              /\ t[1] < u[1]
              /\ results_in[t[1]].data[t[2]] # results_in[u[1]].data[u[2]]
              /\ image[off + 1] = ParseHex(results_in[u[1]].data[u[2]])
              /\ image[off + 1] # 0
    /\ \E off \in 0..(device.SIZE - 1) : Targets(off) = {}

\* C10: if some data byte's absolute offset is SIZE or more the run never
\* reaches the end of the encoder and never writes the image, it stops in the
\* error state at that byte; no cell ever holds a byte that was not targeted
\* at exactly its offset.
C10_OffsetError ==
    /\ Overflow => (pc # "printed" /\ image = <<>>)
    /\ pc = "error" =>
          /\ image = <<>>
          /\ ParseHex(results[e_idx].address) + (c_idx - 1) >= device.SIZE
    /\ \A off \in 0..(Len(mem_map) - 1) :
          mem_map[off + 1] # <<0>> =>
              \E t \in Targets(off) : mem_map[off + 1] = FromHex(results_in[t[1]].data[t[2]])

\* the run has stopped at an out-of-range byte after storing earlier bytes
C10_Witness ==
    /\ pc = "error"
    /\ Overflow
    /\ seq_read # <<>>
    /\ image = <<>>
    /\ ParseHex(results[e_idx].address) + (c_idx - 1) = device.SIZE

-----------------------------------------------------------------------------
(* CAN.read_file with --can (the special output) *)

\* number of data lines of an export the CAN reader model consumes
MaxCanRows == 6

\* s.lstrip('"') and s.rstrip('"')
RECURSIVE LStripQuote(_)
LStripQuote(s) ==
    IF s # <<>> /\ Head(s) = Q THEN LStripQuote(Tail(s)) ELSE s

RECURSIVE RStripQuote(_)
RStripQuote(s) ==
    IF s # <<>> /\ s[Len(s)] = Q THEN RStripQuote(SubSeq(s, 1, Len(s) - 1)) ELSE s

\* h.strip('"')
StripQuote(h) == RStripQuote(LStripQuote(h))

\* self.header_pos[h.strip('"')] = header_pos_count for every header
StrippedHeaderPos(hs) == HeaderPos([k \in 1..Len(hs) |-> StripQuote(hs[k])])

S_identifier == <<"identifier">>
S_data == <<"data">>
T_identifier_field == <<Q, "identifier_field", Q>>
T_data_field == <<Q, "data_field", Q>>
T_crc_field == <<Q, "crc_field", Q>>

\* whether values[self.header_pos[name]] can be read: a missing column raises
\* KeyError, a line with too few fields IndexError
Readable(values, name) ==
    /\ name \in DOMAIN header_pos
    /\ header_pos[name] < Len(values)

\* values[self.header_pos[name]]
Column(values, name) == values[header_pos[name] + 1]

\* (mutation of the tally: a repeated identifier set back to 1)
CountIdentifierReset(counter, id) ==
    [x \in (DOMAIN counter) \cup {id} |-> IF x = id THEN 1 ELSE counter[x]]

\* self.id_counter[id] += 1 when id is a key, otherwise self.id_counter[id] = 1
CountIdentifier(counter, id) ==
    [x \in (DOMAIN counter) \cup {id} |->
        IF x # id THEN counter[x]
        ELSE IF id \in DOMAIN counter THEN counter[id] + 1
        ELSE 1]

\* self.id_counter[id] = 1
FirstIdentifier(counter, id) ==
    [x \in (DOMAIN counter) \cup {id} |-> IF x = id THEN 1 ELSE counter[x]]

\* (mutation of the data list: the newest byte put first)
AppendDataFirst(entry, d) == [entry EXCEPT !.data = <<d>> \o @]

\* temp_entry['data'].append(d)
AppendData(entry, d) == [entry EXCEPT !.data = Append(@, d)]

\* the body of the loop for one data line
CanLine(st, values) ==
    IF ~Readable(values, S_type) THEN [st EXCEPT !.pc = "error"]
    ELSE IF Column(values, S_type) = T_identifier_field THEN
        IF ~st.identifier THEN
            IF ~Readable(values, S_identifier) THEN [st EXCEPT !.pc = "error"]
            ELSE [st EXCEPT !.temp_entry = [id |-> Column(values, S_identifier), data |-> <<>>],
                            !.identifier = TRUE,
                            !.id_counter = FirstIdentifier(@, Column(values, S_identifier))]
        ELSE
            IF ~Readable(values, S_identifier)
            THEN [st EXCEPT !.results = Append(@, st.temp_entry), !.pc = "error"]
            ELSE [st EXCEPT !.results = Append(@, st.temp_entry),
                            !.temp_entry = [id |-> Column(values, S_identifier), data |-> <<>>],
                            !.id_counter = CountIdentifier(@, Column(values, S_identifier))]
    ELSE IF Column(values, S_type) = T_data_field THEN
        IF ~st.identifier THEN st
        ELSE IF ~Readable(values, S_data) THEN [st EXCEPT !.pc = "error"]
        ELSE [st EXCEPT !.temp_entry = AppendData(@, Column(values, S_data))]
    ELSE st

\* header lines of CAN exports, split on ','
CanHeaderLines ==
    { << <<"name">>, <<"type">>, <<Q, "identifier", Q>>, <<Q, "data", Q>> >>,
      << <<"type">>, <<"data">>, <<"identifier">> >> }

MkCanRow(hs, type, id, data) ==
    [k \in 1..Len(hs) |->
        IF StripQuote(hs[k]) = S_type THEN type
        ELSE IF StripQuote(hs[k]) = S_identifier THEN id
        ELSE IF StripQuote(hs[k]) = S_data THEN data
        ELSE <<Q, "CAN", Q>>]

CanIds == { <<"0","x","1","0","1">>, <<"0","x","2","0","2">> }

CanData == { <<"0","x","A","A">>, <<"0","x","B","B">> }

\* data lines, split on ',': identifier rows, data rows, a row of another
\* type and an empty line
CanRows(hs) ==
    { MkCanRow(hs, T_identifier_field, id, <<>>) : id \in CanIds }
    \cup { MkCanRow(hs, T_data_field, <<>>, d) : d \in CanData }
    \cup { MkCanRow(hs, T_crc_field, <<>>, <<>>), << <<>> >> }

CanLocals ==
    [pc |-> pc, identifier |-> identifier, temp_entry |-> temp_entry,
     id_counter |-> id_counter, results |-> results]

CanInit ==
    /\ pc = "reading"
    /\ first_line = FALSE
    /\ headers = <<>>
    /\ header_pos = <<>>
    /\ i = 0
    /\ mosi_val = <<>>
    /\ miso_val = <<>>
    /\ data_buf = <<>>
    /\ command_found = NoCommand
    /\ count = 0
    /\ address = <<>>
    /\ res_count = 0
    /\ results = <<>>
    /\ trace = <<>>
    /\ prev_results = <<>>
    /\ EncoderIdle
    /\ BaseIdle
    /\ CanIdle

\* the SPI locals, which CAN.read_file does not have
spiLocals == <<i, mosi_val, miso_val, data_buf, command_found, count, address, res_count>>

CanHeaderLine ==
    /\ pc = "reading"
    /\ ~first_line
    /\ \E line \in CanHeaderLines :
         /\ headers' = line
         /\ header_pos' = StrippedHeaderPos(line)
    /\ first_line' = TRUE
    /\ UNCHANGED <<pc, results, trace, prev_results, spiLocals, encoderVars, baseVars, canVars>>

\* one data line; trace keeps the lines the loop body ran to its end on
CanDataLine ==
    /\ pc = "reading"
    /\ first_line
    /\ Len(trace) < MaxCanRows
    /\ \E values \in CanRows(headers) :
         \E n \in {CanLine(CanLocals, values)} :
            /\ pc' = n.pc
            /\ identifier' = n.identifier
            /\ temp_entry' = n.temp_entry
            /\ id_counter' = n.id_counter
            /\ results' = n.results
            /\ trace' = IF n.pc = "error" THEN trace ELSE Append(trace, values)
    /\ prev_results' = results
    /\ UNCHANGED <<first_line, headers, header_pos, spiLocals, encoderVars, baseVars>>

CanEndOfFile ==
    /\ pc = "reading"
    /\ first_line
    /\ pc' = "done"
    /\ UNCHANGED <<results, readerVars, encoderVars, baseVars, canVars>>

CanNext == CanHeaderLine \/ CanDataLine \/ CanEndOfFile

CanSpec == CanInit /\ [][CanNext]_vars

-----------------------------------------------------------------------------
(* CAN frames, read off the history of consumed lines *)

IsIdentifierRow(values) ==
    Readable(values, S_type) /\ Column(values, S_type) = T_identifier_field

IsDataRow(values) ==
    Readable(values, S_type) /\ Column(values, S_type) = T_data_field

\* the positions of the identifier-field rows consumed so far
IdPositions == {k \in 1..Len(trace) : IsIdentifierRow(trace[k])}

\* the position of the n-th identifier-field row
IdIndex(n) == CHOOSE k \in IdPositions : Cardinality({j \in IdPositions : j <= k}) = n

\* the data values of the data-field rows strictly between two positions
DataBetween(lo, hi) ==
    LET rows == SelectSeq(SubSeq(trace, lo + 1, hi - 1), IsDataRow)
    IN  [k \in 1..Len(rows) |-> Column(rows[k], S_data)]

\* the count the tally gives an identifier, 0 when it has none
Tally(id) == IF id \in DOMAIN id_counter THEN id_counter[id] ELSE 0

RECURSIVE SumOver(_, _)
SumOver(counter, ids) ==
    IF ids = {} THEN 0
    ELSE LET id == CHOOSE x \in ids : TRUE
         IN  counter[id] + SumOver(counter, ids \ {id})

\* C11: at end of stream the frame opened by the last identifier-field row
\* is in the result set: there are as many frames as identifier-field rows.
C11_LastFrameFlushed ==
    pc = "done" => Len(results) = Cardinality(IdPositions)

\* C12: after every row the tally counts sum to the number of identifier-field
\* rows consumed, and each identifier's count is the number of
\* identifier-field rows that carry it.
C12_Tally ==
    /\ SumOver(id_counter, DOMAIN id_counter) = Cardinality(IdPositions)
    /\ DOMAIN id_counter \subseteq CanIds
    /\ \A id \in CanIds :
          Tally(id) = Cardinality({k \in IdPositions : Column(trace[k], S_identifier) = id})

\* three identifier-field rows, the first and the last of the trace among
\* them, two with one identifier and one with the other
C12_Witness ==
    /\ Len(trace) >= 4
    /\ Cardinality(IdPositions) = 3
    /\ 1 \in IdPositions
    /\ Len(trace) \in IdPositions
    /\ \E id \in CanIds : Tally(id) = 2
    /\ \E id \in CanIds : Tally(id) = 1

\* C13: every frame of the result set has the identifier of its
\* identifier-field row and, as data, the data values of the data-field rows
\* between that row and the next identifier-field row, in source order;
\* before the first identifier-field row no row changes the state.
C13_FrameData ==
    /\ Len(results) <= Cardinality(IdPositions)
    /\ \A f \in 1..Len(results) :
          LET next == IF f < Cardinality(IdPositions) THEN IdIndex(f + 1) ELSE Len(trace) + 1
          IN  /\ results[f].id = Column(trace[IdIndex(f)], S_identifier)
              /\ results[f].data = DataBetween(IdIndex(f), next)
    /\ IdPositions = {} => (results = <<>> /\ CanIdle)

\* a frame with two different data bytes is in the result set, and the trace
\* began with a data-field row
C13_Witness ==
    /\ Len(results) >= 1
    /\ Len(results[1].data) = 2
    /\ results[1].data[1] # results[1].data[2]
    /\ IsDataRow(trace[1])
    /\ IdIndex(1) = 2

-----------------------------------------------------------------------------
(* Analyzer.read_file: the plain reader, with the -d filter and its -b and
   -a context *)

\* number of data lines of an export the plain reader model consumes
MaxLines == 6

\* largest -b and -a value the model is run with
MaxBefore == 2
MaxAfter == 2

\* ','.join(values): the line the fields were split from
RECURSIVE JoinComma(_)
JoinComma(values) ==
    IF Len(values) = 0 THEN <<>>
    ELSE IF Len(values) = 1 THEN values[1]
    ELSE values[1] \o <<",">> \o JoinComma(Tail(values))

\* re.search(pattern, line, re.IGNORECASE) for a pattern of literal
\* characters: the pattern occurs in the line, letter case ignored
Search(pattern, line) ==
    \E k \in 1..(Len(line) - Len(pattern) + 1) :
        Upper(SubSeq(line, k, k + Len(pattern) - 1)) = Upper(pattern)

\* r['after'] is set
HasAfter(r) == "after" \in DOMAIN r

\* self.results[-1]['after'] = buf
SetLastAfter(res, buf) ==
    [res EXCEPT ![Len(res)] =
        [x \in (DOMAIN res[Len(res)]) \cup {"after"} |->
            IF x = "after" THEN buf ELSE res[Len(res)][x]]]

\* (mutation of the before buffer: a full buffer keeps its oldest records)
PushBeforeKeepOldest(buf, values) ==
    IF Len(buf) < before THEN Append(buf, values) ELSE buf

\* the before buffer after a non-matching line, self.before being set
PushBefore(buf, values) ==
    IF Len(buf) < before THEN Append(buf, values)
    ELSE Append(Tail(buf), values)

\* (mutation of the after buffer: a full buffer slides to the newest records)
PushAfterSliding(buf, values) ==
    IF Len(buf) < after THEN Append(buf, values) ELSE Append(Tail(buf), values)

\* the after buffer after a non-matching line, self.after being set and an
\* anchor being in the results
PushAfter(buf, values) ==
    IF Len(buf) < after THEN Append(buf, values) ELSE buf

\* the body of the loop for one data line
BaseLine(st, values) ==
    IF data_filter # <<>> THEN
        IF Search(data_filter, JoinComma(values)) THEN
            [results |-> Append(IF Len(st.results) > 0
                                THEN SetLastAfter(st.results, st.after_buffer)
                                ELSE st.results,
                                [val |-> values, before |-> st.before_buffer]),
             before_buffer |-> <<>>,
             after_buffer |-> <<>>]
        ELSE
            [results |->
                IF /\ after # 0 /\ Len(st.results) > 0
                   /\ Len(st.after_buffer) >= after
                   /\ ~HasAfter(st.results[Len(st.results)])
                THEN SetLastAfter(st.results, st.after_buffer)
                ELSE st.results,
             before_buffer |->
                IF before # 0 THEN PushBefore(st.before_buffer, values)
                ELSE st.before_buffer,
             after_buffer |->
                IF after # 0 /\ Len(st.results) > 0
                THEN PushAfter(st.after_buffer, values)
                ELSE st.after_buffer]
    ELSE [st EXCEPT !.results = Append(@, [val |-> values])]

RemoveAt(seq, k) == SubSeq(seq, 1, k - 1) \o SubSeq(seq, k + 1, Len(seq))

\* the merge with the line feed left out
MergeNextNoLineFeed(res, idx) ==
    LET v == res[idx].val
        w == res[idx + 1].val
        joined == SubSeq(v, 1, Len(v) - 1) \o <<v[Len(v)] \o w[1]>> \o Tail(w)
    IN  RemoveAt([res EXCEPT ![idx].val = joined], idx + 1)

\* the merge of one short record with the record after it
MergeNext(res, idx) ==
    LET v == res[idx].val
        w == res[idx + 1].val
        joined == SubSeq(v, 1, Len(v) - 1) \o <<v[Len(v)] \o <<"\n">> \o w[1]>> \o Tail(w)
    IN  RemoveAt([res EXCEPT ![idx].val = joined], idx + 1)

\* the pass over the results after the loop, from the record at idx on; a
\* short last record reads self.results[idx+1] past the end (IndexError)
RECURSIVE Repair(_, _)
Repair(res, idx) ==
    IF idx > Len(res) THEN [pc |-> "done", results |-> res]
    ELSE IF Len(res[idx].val) >= Len(headers) THEN Repair(res, idx + 1)
    ELSE IF idx + 1 > Len(res) THEN [pc |-> "error", results |-> res]
    ELSE CHOOSE end \in {Repair(m, idx) : m \in {MergeNext(res, idx)}} : TRUE

\* the -d patterns the model is run with; the empty one is no -d
BasePatterns == { <<>>, <<"A", "5">> }

BaseHeaderLines == { << <<"Time [s]">>, <<"Value">> >> }

BaseValues == { <<"0","x","A","5">>, <<"0","x","a","5">>, <<"0","x","1","1">> }

\* the k-th data line, split on ',': its time stamp and a value
BaseRows(k) == { << <<"0", ".", UpperDigits[k + 1]>>, v >> : v \in BaseValues }

BaseLocals ==
    [results |-> results, before_buffer |-> before_buffer, after_buffer |-> after_buffer]

BaseInit ==
    /\ pc = "reading"
    /\ first_line = FALSE
    /\ headers = <<>>
    /\ header_pos = <<>>
    /\ i = 0
    /\ mosi_val = <<>>
    /\ miso_val = <<>>
    /\ data_buf = <<>>
    /\ command_found = NoCommand
    /\ count = 0
    /\ address = <<>>
    /\ res_count = 0
    /\ results = <<>>
    /\ trace = <<>>
    /\ prev_results = <<>>
    /\ EncoderIdle
    /\ CanIdle
    /\ data_filter \in BasePatterns
    /\ before \in 0..MaxBefore
    /\ after \in 0..MaxAfter
    /\ before_buffer = <<>>
    /\ after_buffer = <<>>

BaseHeaderLine ==
    /\ pc = "reading"
    /\ ~first_line
    /\ \E line \in BaseHeaderLines :
         /\ headers' = line
         /\ header_pos' = StrippedHeaderPos(line)
    /\ first_line' = TRUE
    /\ UNCHANGED <<pc, results, trace, prev_results, spiLocals, encoderVars, baseVars, canVars>>

BaseDataLine ==
    /\ pc = "reading"
    /\ first_line
    /\ Len(trace) < MaxLines
    /\ \E values \in BaseRows(Len(trace) + 1) :
         \E n \in {BaseLine(BaseLocals, values)} :
            /\ results' = n.results
            /\ before_buffer' = n.before_buffer
            /\ after_buffer' = n.after_buffer
            /\ trace' = Append(trace, values)
    /\ prev_results' = results
    /\ UNCHANGED <<pc, first_line, headers, header_pos, spiLocals, encoderVars,
                   data_filter, before, after, canVars>>

\* the end of the file: the loop ends and the pass over the results runs
BaseEndOfFile ==
    /\ pc = "reading"
    /\ first_line
    /\ \E n \in {Repair(results, 1)} :
         /\ pc' = n.pc
         /\ results' = n.results
    /\ UNCHANGED <<readerVars, encoderVars, baseVars, canVars>>

BaseNext == BaseHeaderLine \/ BaseDataLine \/ BaseEndOfFile

BaseSpec == BaseInit /\ [][BaseNext]_vars

-----------------------------------------------------------------------------
(* Anchors and their context, read off the history of consumed lines *)

\* the line matches the -d pattern
Matches(values) == Search(data_filter, JoinComma(values))

\* the positions of the matching lines among the first k consumed, in order
RECURSIVE MatchPositions(_)
MatchPositions(k) ==
    IF k = 0 THEN <<>>
    ELSE IF Matches(trace[k]) THEN Append(MatchPositions(k - 1), k)
    ELSE MatchPositions(k - 1)

\* the positions of the matching lines consumed so far, in order
AnchorPositions == MatchPositions(Len(trace))

\* the n-th of the positions pos, 0 for n = 0
At(pos, n) == IF n = 0 THEN 0 ELSE pos[n]

\* the position of the n-th matching line, 0 for n = 0
AnchorIndex(n) == At(AnchorPositions, n)

\* the records strictly between two positions
RecordsBetween(lo, hi) == SubSeq(trace, lo + 1, hi - 1)

\* the first and the last min(n, Len(seq)) elements of a sequence
FirstOf(seq, n) == SubSeq(seq, 1, Min(n, Len(seq)))
LastOf(seq, n) == SubSeq(seq, Len(seq) - Min(n, Len(seq)) + 1, Len(seq))

\* the records after the last of the positions pos
After(pos) == RecordsBetween(At(pos, Len(pos)), Len(trace) + 1)

\* the records after the last anchor
Trailing == After(AnchorPositions)

\* C14: with a pattern and an after capacity a >= 1, at end of stream the
\* last anchor carries an after context: the first min(k, a) of the k records
\* that followed it.
C14_LastAnchorAfter ==
    (pc = "done" /\ data_filter # <<>> /\ after >= 1 /\ results # <<>>) =>
        /\ HasAfter(results[Len(results)])
        /\ results[Len(results)].after = FirstOf(Trailing, after)

\* C15: with a pattern, the before buffer never holds more than b records,
\* every anchor's before context is the last min(b, m) of the m non-matching
\* records between the previous anchor and it, in source order, and the
\* buffer is empty right after a match; with b unset the context is empty.
C15_BeforeContext ==
    data_filter # <<>> =>
        \A pos \in {AnchorPositions} :
            /\ Len(before_buffer) <= before
            /\ Len(results) = Len(pos)
            /\ \A n \in 1..Len(results) :
                  /\ results[n].val = trace[pos[n]]
                  /\ results[n].before =
                        LastOf(RecordsBetween(At(pos, n - 1), pos[n]), before)
            /\ (pos # <<>> /\ pos[Len(pos)] = Len(trace)) => before_buffer = <<>>
            /\ before_buffer = LastOf(After(pos), before)

\* with b = 2, the second anchor follows three non-matching records and
\* carries the last two of them
C15_Witness ==
    /\ data_filter # <<>>
    /\ before = 2
    /\ Len(results) = 2
    /\ AnchorIndex(2) - AnchorIndex(1) = 4
    /\ results[2].before = <<trace[AnchorIndex(2) - 2], trace[AnchorIndex(2) - 1]>>
    /\ Len(trace) = AnchorIndex(2)
    /\ before_buffer = <<>>

\* C16: with a pattern and an after capacity a, every anchor followed by
\* another anchor carries the first min(a, m) of the m non-matching records
\* between the two, in source order; the after buffer never holds more than a
\* records and takes records of the most recent anchor only.
C16_AfterContext ==
    data_filter # <<>> =>
        \A pos \in {AnchorPositions} :
            /\ Len(after_buffer) <= after
            /\ \A n \in 1..(Len(results) - 1) :
                  /\ HasAfter(results[n])
                  /\ results[n].after =
                        FirstOf(RecordsBetween(pos[n], pos[n + 1]), after)
            /\ results # <<>> =>
                  /\ after_buffer = FirstOf(After(pos), after)
                  /\ HasAfter(results[Len(results)]) =>
                        results[Len(results)].after = after_buffer
            /\ results = <<>> => after_buffer = <<>>

\* with a = 2, the first anchor is followed by three non-matching records and
\* a second anchor, and carries the first two of them
C16_Witness ==
    /\ data_filter # <<>>
    /\ after = 2
    /\ Len(results) = 2
    /\ AnchorIndex(2) - AnchorIndex(1) = 4
    /\ HasAfter(results[1])
    /\ results[1].after = <<trace[AnchorIndex(1) + 1], trace[AnchorIndex(1) + 2]>>

-----------------------------------------------------------------------------
(* Closing a transaction *)

\* the step consumes one data line
LineStep == Len(trace') = Len(trace) + 1

\* the line the step consumes, as the history keeps it
LineRead == trace'[Len(trace')]

\* the transaction accumulated so far
OpenTransaction == [address |-> address, data |-> data_buf]

\* C17: in an export with a type column, a disable row seen while a
\* transaction is open appends that transaction and resets the state to idle
\* (no command, cycle count 0, empty address, empty data buffer); a disable
\* row seen while none is open appends nothing, and no other row appends.
C17_DisableCloses ==
    [][(InHeaders(S_type) /\ LineStep) =>
          IF LineRead.kind = "disable" /\ command_found # NoCommand
          THEN /\ results' = Append(results, OpenTransaction)
               /\ command_found' = NoCommand
               /\ count' = 0
               /\ address' = <<>>
               /\ data_buf' = <<>>
          ELSE results' = results]_vars

\* a disable row met no open transaction, and a later one has closed a READ
\* transaction with data
C17_Witness ==
    /\ TypedReadable
    /\ Len(trace) >= 2
    /\ trace[1].kind = "disable"
    /\ LastIsDisable
    /\ Len(results) = 1
    /\ results[1].data # <<>>
    /\ command_found = NoCommand
    /\ count = 0
    /\ address = <<>>
    /\ data_buf = <<>>

\* C18: in an export without a type column, a row whose command-line byte is
\* a read opcode, met while a transaction is open and its cycle count is 5 or
\* more, appends the open transaction and becomes cycle 1 of a new transaction
\* of that opcode, adding to no address and no data; with a cycle count of 4
\* or less, or another byte, the row appends nothing.
C18_OpcodeCloses ==
    [][(UntypedReadable /\ LineStep /\ LineRead.kind = "row") =>
          IF command_found # NoCommand /\ count >= 5 /\ IsOpcode(LineRead.mosi)
          THEN /\ results' = Append(results, OpenTransaction)
               /\ command_found' = LineRead.mosi
               /\ count' = 1
               /\ address' = <<>>
               /\ data_buf' = <<>>
          ELSE results' = results]_vars

\* a READ transaction with data has been closed by the opcode row of a
\* transaction of another variant
C18_Witness ==
    /\ UntypedReadable
    /\ Len(results) = 1
    /\ Len(results[1].address) = 6
    /\ results[1].data # <<>>
    /\ IsOpcode(trace[Len(trace)].mosi)
    /\ command_found = trace[Len(trace)].mosi
    /\ command_found # device.READ
    /\ trace[FirstOpcode].mosi = device.READ
    /\ count = 1
    /\ address = <<>>
    /\ data_buf = <<>>

-----------------------------------------------------------------------------
(* The reader on longer exports over fewer values: a whole fast read of an
   export with a type column takes eight rows *)

\* number of data lines of a longer export
MaxLongRows == 8

LongPairs ==
    { << <<"0","x","0","3">>, <<"0","x","A","A">> >>,
      << <<"0","x","0","B">>, <<"0","x","B","B">> >>,
      << <<"0","x","3","B">>, <<"0","x","5","5">> >> }

LongRows(hs) ==
    IF HasType(hs)
    THEN {MkRow(hs, T_disable, <<>>, <<>>)}
         \cup {MkRow(hs, T_result, p[1], p[2]) : p \in LongPairs}
    ELSE {MkRow(hs, <<>>, p[1], p[2]) : p \in LongPairs}

LongHeaderLine ==
    /\ pc = "reading"
    /\ ~first_line
    /\ \E line \in ReadableHeaderLines :
         /\ headers' = StripQuotes(line)
         /\ header_pos' = HeaderPos(StripQuotes(line))
    /\ first_line' = TRUE
    /\ UNCHANGED <<pc, results, trace, prev_results, spiLocals, encoderVars, baseVars, canVars>>

LongDataLine ==
    /\ pc = "reading"
    /\ first_line
    /\ i < MaxLongRows
    /\ \E values \in LongRows(headers) :
         /\ \E n \in {ReadLine(Locals, values)} : SetLocals(n)
         /\ trace' = Append(trace, Seen(values))
    /\ i' = i + 1
    /\ prev_results' = results
    /\ UNCHANGED <<first_line, headers, header_pos, encoderVars, baseVars, canVars>>

LongEndOfFile ==
    /\ pc = "reading"
    /\ first_line
    /\ pc' = "done"
    /\ results' = EndResults(Locals)
    /\ UNCHANGED <<readerVars, encoderVars, baseVars, canVars>>

LongNext == LongHeaderLine \/ LongDataLine \/ LongEndOfFile

LongSpec == SpiInit /\ [][LongNext]_vars

\* C19: every transaction of the result set that has a data byte has an
\* address of exactly 6 hex characters, in both export shapes.
C19_AddressLength ==
    \A n \in 1..Len(results) :
        results[n].data # <<>> => Len(results[n].address) = 6

-----------------------------------------------------------------------------
(* Exports without a data-line column *)

\* the header has neither a miso nor a MISO column
NoDataLine == first_line /\ ~InHeaders(S_miso) /\ ~InHeaders(S_MISO)

\* the consumed line needs the data line: a result row of an export with a
\* type column, any full row of one without
NeedsDataLine(e) == e.kind = "result" \/ e.kind = "row"

\* C20: when the header has neither a miso nor a MISO column, the reader stops
\* at the first row that needs the data line: no row after it is consumed and
\* the result set stays empty.
C20_MissingDataLine ==
    NoDataLine =>
        /\ results = <<>>
        /\ command_found = NoCommand
        /\ \A k \in 1..(Len(trace) - 1) : ~NeedsDataLine(trace[k])
        /\ (trace # <<>> /\ NeedsDataLine(trace[Len(trace)])) => pc = "returned"
        /\ pc = "returned" => NeedsDataLine(trace[Len(trace)])

\* the reader has stopped at a result row that followed a disable row
C20_Witness ==
    /\ NoDataLine
    /\ InHeaders(S_type)
    /\ pc = "returned"
    /\ Len(trace) = 2
    /\ trace[1].kind = "disable"
    /\ trace[2].kind = "result"

-----------------------------------------------------------------------------
(* The files of the binary encoder *)

\* the data bytes of the transactions res, in result order and data order
RECURSIVE AllBytes(_)
AllBytes(res) ==
    IF res = <<>> THEN <<>>
    ELSE [k \in 1..Len(res[1].data) |-> ParseHex(res[1].data[k])] \o AllBytes(Tail(res))

C24_EncodeTwice ==
    mem_map # <<>> =>
        /\ results = results_in
        /\ (pc = "printed" /\ first_run # <<>>) =>
              /\ image = first_run[1].image
              /\ seq_read = first_run[1].seq_read

\* a second encoding of two overlapping transactions has finished
C24_Witness ==
    /\ pc = "printed"
    /\ first_run # <<>>
    /\ Len(results) = 2
    /\ Len(results[1].data) >= 2
    /\ Len(results[2].data) >= 1
    /\ ParseHex(results[2].address) = ParseHex(results[1].address) + 1
    /\ image # <<>>
    /\ \E k \in 1..Len(image) : image[k] # 0

-----------------------------------------------------------------------------
\* I2C.print_results with an address (-a): the scan of the result set for
\* the rows of one I2C address.  The result set is the one Analyzer.read_file
\* builds without a data filter: one record {'val': values} per row.

MaxI2CRows == 5

S_address == <<"address">>
S_Address == <<"Address">>
T_data == <<Q, "data", Q>>
T_address == <<Q, "address", Q>>
T_stop == <<Q, "stop", Q>>

\* target in field: the target occurs in the field, letter case kept
Contains(target, field) ==
    \E k \in 1..(Len(field) - Len(target) + 1) :
        SubSeq(field, k, k + Len(target) - 1) = target

\* the while loop of the address branch: the rows after row idx, as long as
\* their type field is '"data"'
RECURSIVE DataRowsAfter(_, _)
DataRowsAfter(res, idx) ==
    IF (idx + 1) <= Len(res) /\ Column(res[idx + 1].val, S_type) = T_data
    THEN <<res[idx + 1].val>> \o DataRowsAfter(res, idx + 1)
    ELSE <<>>

\* the while condition raises: a row follows and there is no type column
\* (KeyError) or the row has no field at that position (IndexError)
RECURSIVE DataRowsRaise(_, _)
DataRowsRaise(res, idx) ==
    /\ (idx + 1) <= Len(res)
    /\ \/ ~Readable(res[idx + 1].val, S_type)
       \/ /\ Column(res[idx + 1].val, S_type) = T_data
          /\ DataRowsRaise(res, idx + 1)

\* one pass of the for loop: what row idx makes the scan print (a blank line
\* is the empty sequence) and whether the pass raises
PrintRow(res, idx) ==
    LET r == res[idx]
    IN  IF S_address \in DOMAIN header_pos
        THEN IF ~Readable(r.val, S_address) THEN [pc |-> "error", out |-> <<>>]
             ELSE IF Contains(address, Column(r.val, S_address))
             THEN IF DataRowsRaise(res, idx)
                  THEN [pc |-> "error", out |-> <<r.val>>]
                  ELSE [pc |-> "i2c",
                        out |-> <<r.val>> \o DataRowsAfter(res, idx) \o << <<>> >>]
             ELSE [pc |-> "i2c", out |-> <<>>]
        ELSE IF S_Address \in DOMAIN header_pos
        THEN IF ~Readable(r.val, S_Address) THEN [pc |-> "error", out |-> <<>>]
             ELSE IF Contains(address, Column(r.val, S_Address))
             THEN [pc |-> "i2c", out |-> <<r.val>>]
             ELSE [pc |-> "i2c", out |-> <<>>]
        ELSE [pc |-> "i2c", out |-> <<>>]

\* the exports scanned: Logic 2 table rows (type, start_time, "address"),
\* Logic 1 rows (Time [s], Address, Data), and a table whose address column
\* is named Address beside a type column
I2CHeaderLines ==
    { << <<"type">>, <<"start_time">>, <<Q, "address", Q>> >>,
      << <<"Time [s]">>, <<"Address">>, <<"Data">> >>,
      << <<"type">>, <<"start_time">>, <<"Address">> >> }

I2CTargets == { <<"5", "A">>, <<"0", "x", "5", "a">> }

I2CStamp(k) == <<"0", ".", UpperDigits[k + 1]>>

\* the kinds of row a header has, and the row of a kind at position k
I2CKinds(hs) == IF hs[1] = S_type THEN 1..5 ELSE 1..2

I2CRow(hs, kind, k) ==
    IF hs[1] = S_type
    THEN << <<T_address, I2CStamp(k), <<"0", "x", "5", "A">> >>,
            <<T_address, I2CStamp(k), <<"0", "x", "5", "a">> >>,
            <<T_data, I2CStamp(k), <<>> >>,
            <<T_data, I2CStamp(k), <<"0", "x", "5", "A">> >>,
            <<T_stop, I2CStamp(k), <<>> >> >>[kind]
    ELSE << <<I2CStamp(k), <<"0", "x", "5", "A">>, <<"0", "x", "4", "1">> >>,
            <<I2CStamp(k), <<"0", "x", "5", "a">>, <<"0", "x", "4", "1">> >> >>[kind]

I2CResults(hs) ==
    UNION { { [k \in 1..n |-> [val |-> I2CRow(hs, kinds[k], k)]] :
                kinds \in [1..n -> I2CKinds(hs)] } :
            n \in 0..MaxI2CRows }

I2CInit ==
    /\ pc = "i2c"
    /\ first_line = TRUE
    /\ headers \in I2CHeaderLines
    /\ header_pos = StrippedHeaderPos(headers)
    /\ i = 0
    /\ mosi_val = <<>>
    /\ miso_val = <<>>
    /\ data_buf = <<>>
    /\ command_found = NoCommand
    /\ count = 0
    /\ address \in I2CTargets
    /\ res_count = 0
    /\ results \in I2CResults(headers)
    /\ trace = <<>>
    /\ prev_results = <<>>
    /\ e_idx = 1
    /\ c_idx = 0
    /\ printed = <<>>
    /\ seq_read = <<>>
    /\ mem_map = <<>>
    /\ image = <<>>
    /\ results_in = <<>>
    /\ first_run = <<>>
    /\ BaseIdle
    /\ CanIdle

\* for idx, r in enumerate(self.results): one row
I2CPrintRow ==
    /\ pc = "i2c"
    /\ e_idx <= Len(results)
    /\ \E n \in {PrintRow(results, e_idx)} :
        /\ pc' = n.pc
        /\ printed' = printed \o n.out
    /\ e_idx' = e_idx + 1
    /\ UNCHANGED <<results, readerVars, c_idx, seq_read, mem_map, image,
                   results_in, first_run, baseVars, canVars>>

\* the for loop is over
I2CPrintDone ==
    /\ pc = "i2c"
    /\ e_idx > Len(results)
    /\ pc' = "printed"
    /\ UNCHANGED <<results, readerVars, encoderVars, baseVars, canVars>>

I2CNext == I2CPrintRow \/ I2CPrintDone

I2CSpec == I2CInit /\ [][I2CNext]_vars

\* the rows printed, blank lines left out
PrintedRows == SelectSeq(printed, LAMBDA line : line # <<>>)

\* row k matches: its field under the address column, named address or
\* Address, contains the target
AddressMatch(k) ==
    LET name == IF S_address \in DOMAIN header_pos THEN S_address ELSE S_Address
    IN  Contains(address, Column(results[k].val, name))

IsI2CDataRow(k) ==
    /\ k <= Len(results)
    /\ S_type \in DOMAIN header_pos
    /\ Column(results[k].val, S_type) = T_data

\* the first row after k that is not a data row (Len + 1 when none)
DataRunEnd(k) ==
    CHOOSE j \in (k + 1)..(Len(results) + 1) :
        /\ ~IsI2CDataRow(j)
        /\ \A m \in (k + 1)..(j - 1) : IsI2CDataRow(m)

RowGroup(k, withData) ==
    IF ~AddressMatch(k) THEN <<>>
    ELSE [m \in 1..(IF withData THEN DataRunEnd(k) - k ELSE 1) |->
            results[k + m - 1].val]

RECURSIVE RowGroups(_, _)
RowGroups(n, withData) ==
    IF n = 0 THEN <<>>
    ELSE RowGroups(n - 1, withData) \o RowGroup(n, withData)

\* what the scan has printed after each pass: under the column address a
\* matching row followed by the data rows directly after it, under the column
\* Address a matching row alone, and nothing else
ScanAsCoded ==
    pc \in {"i2c", "printed"} =>
        PrintedRows = RowGroups(e_idx - 1, S_address \in DOMAIN header_pos)

\* C22: every row whose address field, under the column address or Address,
\* contains the target (letter case kept) is emitted followed by the data
\* rows directly after it, up to the first row that is not a data row, and
\* no other row is emitted
C22_AddressScan ==
    pc = "printed" => PrintedRows = RowGroups(Len(results), TRUE)

-----------------------------------------------------------------------------
\* Analyzer.read_file on exports whose rows are broken over several lines by
\* a line feed inside a field: the pass over the results after the loop.

RepairHeaderLines == { << <<"Time [s]">>, <<"Value">>, <<"Note">> >> }

\* the k-th line, split on ',': a whole row, or the first one or two fields
\* of one (a piece of a row broken by a line feed)
RepairRows(k) ==
    { SubSeq(<<I2CStamp(k), v, <<"o", "k">> >>, 1, w) :
        v \in { <<"0","x","A","5">>, <<"0","x","1","1">> }, w \in 1..3 }

RepairInit ==
    /\ pc = "reading"
    /\ first_line = FALSE
    /\ headers = <<>>
    /\ header_pos = <<>>
    /\ i = 0
    /\ mosi_val = <<>>
    /\ miso_val = <<>>
    /\ data_buf = <<>>
    /\ command_found = NoCommand
    /\ count = 0
    /\ address = <<>>
    /\ res_count = 0
    /\ results = <<>>
    /\ trace = <<>>
    /\ prev_results = <<>>
    /\ EncoderIdle
    /\ CanIdle
    /\ data_filter \in BasePatterns
    /\ before = 0
    /\ after = 0
    /\ before_buffer = <<>>
    /\ after_buffer = <<>>

RepairHeaderLine ==
    /\ pc = "reading"
    /\ ~first_line
    /\ \E line \in RepairHeaderLines :
         /\ headers' = line
         /\ header_pos' = StrippedHeaderPos(line)
    /\ first_line' = TRUE
    /\ UNCHANGED <<pc, results, trace, prev_results, spiLocals, encoderVars, baseVars, canVars>>

RepairDataLine ==
    /\ pc = "reading"
    /\ first_line
    /\ Len(trace) < MaxLines
    /\ \E values \in RepairRows(Len(trace) + 1) :
         \E n \in {BaseLine(BaseLocals, values)} :
            /\ results' = n.results
            /\ before_buffer' = n.before_buffer
            /\ after_buffer' = n.after_buffer
            /\ trace' = Append(trace, values)
    /\ prev_results' = results
    /\ UNCHANGED <<pc, first_line, headers, header_pos, spiLocals, encoderVars,
                   data_filter, before, after, canVars>>

\* the end of the file: the loop ends and the pass over the results runs;
\* prev_results keeps the results the pass started from
RepairEndOfFile ==
    /\ pc = "reading"
    /\ first_line
    /\ \E n \in {Repair(results, 1)} :
         /\ pc' = n.pc
         /\ results' = n.results
    /\ prev_results' = results
    /\ UNCHANGED <<first_line, headers, header_pos, spiLocals, trace,
                   encoderVars, baseVars, canVars>>

RepairNext == RepairHeaderLine \/ RepairDataLine \/ RepairEndOfFile

RepairSpec == RepairInit /\ [][RepairNext]_vars

\* the number of fields of the records idx .. idx + j of res once merged
RECURSIVE MergedWidth(_, _, _)
MergedWidth(res, idx, j) ==
    IF j = 0 THEN Len(res[idx].val)
    ELSE MergedWidth(res, idx, j - 1) + Len(res[idx + j].val) - 1

\* the number of records after the record idx that complete it to the width
\* of the header (0 for a whole record, -1 when no run of records does)
CompletedBy(res, idx) ==
    LET js == { j \in 0..(Len(res) - idx) : MergedWidth(res, idx, j) = Len(headers) }
    IN  IF js = {} THEN -1 ELSE CHOOSE j \in js : \A m \in js : j <= m

\* every short record from idx on is followed by the lines that complete it
RECURSIVE EachCompleted(_, _)
EachCompleted(res, idx) ==
    IF idx > Len(res) THEN TRUE
    ELSE \A j \in {CompletedBy(res, idx)} :
            j >= 0 /\ EachCompleted(res, idx + j + 1)

\* the lines idx .. idx + j of res as one text, a line feed between the lines
RECURSIVE LinesText(_, _, _)
LinesText(res, idx, j) ==
    IF j = 0 THEN JoinComma(res[idx].val)
    ELSE LinesText(res, idx, j - 1) \o <<"\n">> \o JoinComma(res[idx + j].val)

\* the texts of the rows of res from idx on, each row with its lines
RECURSIVE RowTexts(_, _)
RowTexts(res, idx) ==
    IF idx > Len(res) THEN <<>>
    ELSE LET j == CompletedBy(res, idx)
         IN  <<LinesText(res, idx, j)>> \o RowTexts(res, idx + j + 1)

NoneShort(res) == \A k \in 1..Len(res) : Len(res[k].val) >= Len(headers)

-----------------------------------------------------------------------------
\* SPI.read_file on exports with malformed lines: a line whose number of
\* fields is not the header's.

MaxSkipRows == 7

SkipPairs ==
    { << <<"0","x","0","3">>, <<"0","x","A","A">> >>,
      << <<"0","x","1","1">>, <<"0","x","B","B">> >> }

\* the malformed lines: a closing quote on a line of its own, and a read
\* opcode row with one field too many
MalformedRows(hs) ==
    { << <<Q>> >>,
      Append(MkRow(hs, IF HasType(hs) THEN T_result ELSE <<>>,
                   <<"0","x","0","3">>, <<"0","x","A","A">>), <<"0">>) }

SkipRows(hs) ==
    (IF HasType(hs)
     THEN {MkRow(hs, T_disable, <<>>, <<>>)}
          \cup {MkRow(hs, T_result, p[1], p[2]) : p \in SkipPairs}
     ELSE {MkRow(hs, <<>>, p[1], p[2]) : p \in SkipPairs})
    \cup MalformedRows(hs)

SkipDataLine ==
    /\ pc = "reading"
    /\ first_line
    /\ i < MaxSkipRows
    /\ \E values \in SkipRows(headers) :
         /\ \E n \in {ReadLine(Locals, values)} : SetLocals(n)
         /\ trace' = Append(trace, Seen(values))
    /\ i' = i + 1
    /\ prev_results' = results
    /\ UNCHANGED <<first_line, headers, header_pos, encoderVars, baseVars, canVars>>

SkipNext == LongHeaderLine \/ SkipDataLine \/ LongEndOfFile

SkipSpec == SpiInit /\ [][SkipNext]_vars

\* the well-formed lines of a history, as rows of the export
WellFormed(tr) ==
    LET kept == SelectSeq(tr, LAMBDA l : l.kind # "skipped")
    IN  [k \in 1..Len(kept) |->
            MkRow(headers,
                  IF kept[k].kind = "disable" THEN T_disable
                  ELSE IF kept[k].kind = "result" THEN T_result ELSE <<>>,
                  kept[k].mosi, kept[k].miso)]

\* C25: a line whose field count differs from the header's leaves the command
\* state, the cycle count, the address, the data buffer and the result set as
\* they were, and after every line the reader is where it would be had the
\* malformed lines not been in the file
C25_MalformedRowSkipped ==
    [][LineStep =>
          /\ LineRead.kind = "skipped" =>
                /\ command_found' = command_found
                /\ count' = count
                /\ address' = address
                /\ data_buf' = data_buf
                /\ results' = results
                /\ res_count' = res_count
                /\ pc' = pc
          /\ Locals' = RunLines(InitLocals, WellFormed(trace'))]_vars

C25_Witness ==
    /\ pc = "reading"
    /\ Len(trace) >= 6
    /\ trace[3].kind = "skipped"
    /\ trace[Len(trace)].kind = "skipped"
    /\ command_found = device.READ
    /\ count >= 4
    /\ Len(address) = 6
    /\ data_buf # <<>>

-----------------------------------------------------------------------------
\* SPI.read_file run twice: on an export, and on the export with the same
\* rows whose line columns are named in the other letter case.

MaxCaseRows == 6

\* the header with mosi/miso renamed MOSI/MISO and the reverse
OtherCase(hs) ==
    [k \in 1..Len(hs) |->
        IF hs[k] = S_mosi THEN S_MOSI
        ELSE IF hs[k] = S_miso THEN S_MISO
        ELSE IF hs[k] = S_MOSI THEN S_mosi
        ELSE IF hs[k] = S_MISO THEN S_miso
        ELSE hs[k]]

\* the lines of a history as rows under the header hs
RowsUnder(hs, tr) ==
    [k \in 1..Len(tr) |->
        MkRow(hs,
              IF tr[k].kind = "disable" THEN T_disable
              ELSE IF tr[k].kind = "result" THEN T_result ELSE <<>>,
              tr[k].mosi, tr[k].miso)]

CaseDataLine ==
    /\ pc = "reading"
    /\ first_line
    /\ i < MaxCaseRows
    /\ \E values \in LongRows(headers) :
         /\ \E n \in {ReadLine(Locals, values)} : SetLocals(n)
         /\ trace' = Append(trace, Seen(values))
    /\ i' = i + 1
    /\ prev_results' = results
    /\ UNCHANGED <<first_line, headers, header_pos, encoderVars, baseVars, canVars>>

\* the second run starts: a new object reads the header line of the other
\* export; first_run keeps the outcome of the first run
CaseOtherHeader ==
    /\ pc = "done"
    /\ first_run = <<>>
    /\ first_run' = <<[pc |-> pc, results |-> results]>>
    /\ headers' = OtherCase(headers)
    /\ header_pos' = HeaderPos(OtherCase(headers))
    /\ SetLocals([InitLocals EXCEPT !.pc = "second"])
    /\ i' = 0
    /\ UNCHANGED <<first_line, trace, prev_results, e_idx, c_idx, printed,
                   seq_read, mem_map, image, results_in, baseVars, canVars>>

\* the second run reads the same rows to the end of the file
CaseOtherLines ==
    /\ pc = "second"
    /\ \E n \in {RunLines(InitLocals, RowsUnder(headers, trace))} :
         SetLocals([n EXCEPT !.pc = IF @ = "reading" THEN "done" ELSE @])
    /\ i' = Len(trace)
    /\ UNCHANGED <<first_line, headers, header_pos, trace, prev_results,
                   encoderVars, baseVars, canVars>>

CaseNext ==
    \/ LongHeaderLine
    \/ CaseDataLine
    \/ LongEndOfFile
    \/ CaseOtherHeader
    \/ CaseOtherLines

CaseSpec == SpiInit /\ [][CaseNext]_vars

SecondRunOver == first_run # <<>> /\ pc # "second"

\* without a type column the two runs end with the same result set
UntypedCaseAgrees ==
    (SecondRunOver /\ ~InHeaders(S_type)) =>
        pc = "done" /\ results = first_run[1].results

\* C26: with and without a type column, the same rows under the column names
\* MOSI/MISO and under mosi/miso yield the same result set
C26_ColumnCase ==
    SecondRunOver => results = first_run[1].results

-----------------------------------------------------------------------------
\* C27: the byte count of every printed S2 line is two uppercase hexadecimal
\* digits (chunks of 1 to 32 data bytes, byte counts 5 to 36)
C27_ByteCountDigits ==
    \A k \in 1..Len(printed) :
        /\ Len(printed[k].byte_count) = 2
        /\ \A d \in 1..2 :
              \E u \in 1..16 : printed[k].byte_count[d] = UpperDigits[u]

-----------------------------------------------------------------------------
\* the step opens a transaction
Opens == command_found = NoCommand /\ command_found' # NoCommand

\* C28: in an export with a type column a transaction is opened only by a
\* result row that carries a read opcode and is the first result row since
\* the start of the trace or the last disable row, and such a row opens one;
\* after a first result row that is no opcode, no result row opens one before
\* the next disable row
C28_FirstResultOpens ==
    [][(InHeaders(S_type) /\ LineStep) =>
          /\ Opens =>
                /\ LineRead.kind = "result"
                /\ IsOpcode(LineRead.mosi)
                /\ CurrentSegment = <<>>
          /\ (/\ TypedReadable
              /\ LineRead.kind = "result"
              /\ IsOpcode(LineRead.mosi)
              /\ CurrentSegment = <<>>) => Opens
          /\ (CurrentSegment # <<>> /\ ~IsOpcode(CurrentSegment[1].mosi)) =>
                command_found' = NoCommand]_vars

C28_Witness ==
    /\ TypedReadable
    /\ Len(trace) = 4
    /\ trace[1].kind = "result" /\ ~IsOpcode(trace[1].mosi)
    /\ trace[2].kind = "result" /\ IsOpcode(trace[2].mosi)
    /\ trace[3].kind = "disable"
    /\ trace[4].kind = "result" /\ IsOpcode(trace[4].mosi)
    /\ command_found = trace[4].mosi
    /\ results = <<>>

-----------------------------------------------------------------------------
\* the line that takes the reader from st to n opens a transaction: one is
\* open after it, and either none was before or one was just appended
OpenedBy(st, n) ==
    /\ n.command_found # NoCommand
    /\ \/ st.command_found = NoCommand
       \/ Len(n.results) > Len(st.results)

\* the number of transactions the lines open, read from locals st
RECURSIVE Openings(_, _)
Openings(st, lines) ==
    IF lines = <<>> \/ st.pc # "reading" THEN 0
    ELSE CHOOSE c \in { (IF OpenedBy(st, n) THEN 1 ELSE 0) + Openings(n, Tail(lines)) :
                          n \in {ReadLine(st, Head(lines))} } : TRUE

\* C29: a transaction still open at the end of the stream is not appended:
\* without a type column, when k >= 1 transactions were opened the result set
\* holds k - 1; with a type column, when one was opened after the last
\* disable row the result set holds the k - 1 closed before it
C29_OpenNotAppended ==
    pc = "done" =>
        \A k \in {Openings(InitLocals, RowsUnder(headers, trace))} :
            /\ (~InHeaders(S_type) /\ k >= 1) =>
                  command_found # NoCommand /\ Len(results) = k - 1
            /\ (InHeaders(S_type) /\ command_found # NoCommand) =>
                  Len(results) = k - 1
            /\ (InHeaders(S_type) /\ command_found = NoCommand) =>
                  Len(results) = k

C29_Witness ==
    /\ pc = "done"
    /\ ~InHeaders(S_type)
    /\ Openings(InitLocals, RowsUnder(headers, trace)) = 2
    /\ Len(results) = 1
    /\ results[1].data # <<>>
    /\ command_found # NoCommand
    /\ address # <<>>

=============================================================================
